---- MODULE Spec2Model ----
(***************************************************************************)
(* Model of three C programs of antlir:                                    *)
(*   antlir2_rootless/unshare_userns/unshare_userns.c (Spec, FairSpec),    *)
(*   bzl/genrule/librename_shadowed/rename_shadowed.c (RenameSpec),        *)
(*   nspawn_in_subvol/clonecaps/clonecaps.c           (CapsSpec).          *)
(* The programs share no state; each specification runs one of them and    *)
(* holds the variables of the other two at a fixed value.                  *)
(*                                                                         *)
(* unshare_userns() is run by the calling process (the Orchestrator, "O"). *)
(* It forks Child 1 (the Delegate, "D"), which forks Child 2 (the          *)
(* Sub-delegate, "S").  Every system call of the function is one atomic    *)
(* step of the process that issues it, so that all interleavings of the    *)
(* three processes are explored.  The caller may call the function again   *)
(* after it returned; the children of call number c are D[c] and S[c] and  *)
(* the pipe of call c is pipe c.                                           *)
(*                                                                         *)
(* Environment assumptions: close() always releases the descriptor, even   *)
(* when it reports -1 (Linux semantics); no signal handler interrupts the  *)
(* Delegate's read(); newgidmap/newuidmap are opaque programs that apply   *)
(* their argument triples to the namespace the target process is in at the *)
(* moment they run and end with an arbitrary wait status.                  *)
(***************************************************************************)
EXTENDS Integers, Sequences, FiniteSets, TLC

\* Number of times the caller invokes unshare_userns in sequence.
MaxCalls == 1

Calls == 1..MaxCalls

\* pipefd[0] is the read end and pipefd[1] the write end of pipe(2).
ReadEnd == 0
WriteEnd == 1

\* <stdlib.h>
EXIT_FAILURE == 1

\* Wait statuses as encoded by Linux: exit code in bits 8..15, terminating
\* signal in bits 0..6.
ExitedWith(code) == code * 256
KilledBy(sig) == sig

WIFEXITED(status) == (status % 128) = 0
WEXITSTATUS(status) == (status \div 256) % 256

\* Wait statuses a helper program can end with: exit 0, exit 1, killed by
\* signal 9.
HelperOutcomes == {ExitedWith(0), ExitedWith(1), KilledBy(9)}

\* The argument tuples the caller passes: the spec's end-to-end scenario,
\* one with six pairwise distinct values, one with a sub-range of length 1.
Inputs ==
  { [pid_str |-> "4242",
     uid_map_outside_root |-> "0", uid_map_outside_sub_start |-> "100000",
     uid_map_len |-> "65536",
     gid_map_outside_root |-> "0", gid_map_outside_sub_start |-> "100000",
     gid_map_len |-> "65536"],
    [pid_str |-> "4242",
     uid_map_outside_root |-> "1000", uid_map_outside_sub_start |-> "100000",
     uid_map_len |-> "65536",
     gid_map_outside_root |-> "2000", gid_map_outside_sub_start |-> "200000",
     gid_map_len |-> "4096"],
    [pid_str |-> "77",
     uid_map_outside_root |-> "1000", uid_map_outside_sub_start |-> "165536",
     uid_map_len |-> "1",
     gid_map_outside_root |-> "1000", gid_map_outside_sub_start |-> "165536",
     gid_map_len |-> "1"] }

VARIABLES
  inp,         \* the arguments of unshare_userns
  call,        \* number of calls of unshare_userns started so far
  pcO,         \* position of the Orchestrator
  ret,         \* value returned by the last call (valid when pcO = "returned")
  pcD,         \* pcD[c]: position of the Delegate of call c
  pcS,         \* pcS[c]: position of the Sub-delegate of call c
  stD,         \* stD[c]: wait status of the Delegate once it terminated
  stS,         \* stS[c]: wait status of the Sub-delegate once it terminated
  holders,     \* holders[c]: the <<process, pipefd index>> descriptors open on pipe c
  pipeBytes,   \* pipeBytes[c]: bytes buffered in pipe c
  unshareRet,  \* unshareRet[c]: "none" until unshare() of call c returned
  ns,          \* the user namespace the caller is in (0: the initial one)
  maps,        \* maps[n]: the uid and gid map of namespace n (<<>>: not written)
  uidArgs,     \* uidArgs[c]: argv the Delegate passed to execv(newuidmap)
  gidArgs,     \* gidArgs[c]: argv the Sub-delegate passed to execv(newgidmap)
  fault,       \* fault.O, fault.D[c], fault.S[c]: the call that failed in the
               \* process ("none": no call failed so far)
  stderr,      \* stderr[c]: what the children of call c wrote with perror
  closes       \* closes[c][<<p, fd>>]: number of close(pipefd[fd]) calls that
               \* process p issued on the pipe of call c

\* State of librename_shadowed/rename_shadowed.c, the LD_PRELOAD library
\* that interposes rename.
VARIABLES
  g_shadowed_paths_root,  \* what the constructor got from getenv (NULL: unset)
  renameArgs,             \* renameArgs.old, renameArgs.new: the arguments of rename
  memoized_real_rename,   \* the static function pointer of rename
  pcR,                    \* pcR[t]: position of thread t in rename
  real_rename,            \* real_rename[t]: the local function pointer
  original,               \* original[t]: result of get_shadowed_rename_dest
  allocFailed,            \* allocFailed[t]: an allocation of the call failed
  realCalls,              \* realCalls[t]: the calls <<old, new>> thread t made
                          \* through real_rename, with the pointer it called
  retR,                   \* retR[t]: value returned by rename
  stderrR                 \* what rename wrote to stderr

renameVars == <<g_shadowed_paths_root, renameArgs, memoized_real_rename, pcR,
                real_rename, original, allocFailed, realCalls, retR, stderrR>>

\* State of nspawn_in_subvol/clonecaps/clonecaps.c, the program
\* "clonecaps /proc/PID/status -- cmd argv1 ...".
VARIABLES
  argv,            \* the arguments of main, argv[0] included
  targetFile,      \* the content of the file argv[1] names
  debugEnv,        \* ANTLIR_DEBUG is set and not empty
  ambientBuild,    \* the program was compiled with CAPNG_SUPPORTS_AMBIENT
  capLastCap,      \* the number in /proc/sys/kernel/cap_last_cap (-1: unreadable)
  kernelCaps,      \* the capability sets of the process, as /proc/self/status shows them
  libCaps,         \* the capability sets in the state of libcap-ng
  pcM,             \* position of main
  last_cap,        \* the local of main
  target_bits,     \* the local of main
  final_bits,      \* the local of main
  faultM,          \* the step of main that failed ("none": none so far)
  exitM,           \* the value main returned (valid when pcM = "exited")
  execM            \* execM.path, execM.argv: what was passed to a successful execv

capsVars == <<argv, targetFile, debugEnv, ambientBuild, capLastCap, kernelCaps,
              libCaps, pcM, last_cap, target_bits, final_bits, faultM, exitM,
              execM>>

\* The state of the two other programs, which unshare_userns does not touch.
toolVars == <<renameVars, capsVars>>

unshareVars == <<inp, call, pcO, ret, pcD, pcS, stD, stS, holders, pipeBytes,
                 unshareRet, ns, maps, uidArgs, gidArgs, fault, stderr, closes>>

vars == <<unshareVars, toolVars>>

childVars == <<pcD, pcS, stD, stS, uidArgs, gidArgs>>

\* close(fd) by process p on pipe c.
Close(h, c, p, fd) == [h EXCEPT ![c] = @ \ {<<p, fd>>}]

\* One more close(pipefd[fd]) issued by process p on the pipe of call c.
Closing(n, c, p, fd) == [n EXCEPT ![c][<<p, fd>>] = @ + 1]

\* fork(): the child gets a copy of every descriptor of the parent.
Inherit(h, c, parent, child) ==
  [h EXCEPT ![c] = @ \cup {<<child, d[2]>> : d \in {x \in @ : x[1] = parent}}]

\* Nobody holds the write end of pipe c any more.
WriteEndClosed(c) == \A d \in holders[c] : d[2] # WriteEnd

\* The initial user namespace maps every id to itself.
InitialMap == << <<"0", "0", "4294967295">> >>

UnshareInit ==
  /\ inp \in Inputs
  /\ call = 0
  /\ pcO = "idle"
  /\ ret = 0
  /\ pcD = [c \in Calls |-> "none"]
  /\ pcS = [c \in Calls |-> "none"]
  /\ stD = [c \in Calls |-> 0]
  /\ stS = [c \in Calls |-> 0]
  /\ holders = [c \in Calls |-> {}]
  /\ pipeBytes = [c \in Calls |-> 0]
  /\ unshareRet = [c \in Calls |-> "none"]
  /\ ns = 0
  /\ maps = [n \in 0..MaxCalls |->
               IF n = 0 THEN [uid |-> InitialMap, gid |-> InitialMap]
                        ELSE [uid |-> <<>>, gid |-> <<>>]]
  /\ uidArgs = [c \in Calls |-> <<>>]
  /\ gidArgs = [c \in Calls |-> <<>>]
  /\ fault = [O |-> "none", D |-> [c \in Calls |-> "none"],
              S |-> [c \in Calls |-> "none"]]
  /\ stderr = [c \in Calls |-> <<>>]
  /\ closes = [c \in Calls |-> [d \in {"O", "D"} \X {ReadEnd, WriteEnd} |-> 0]]

----------------------------------------------------------------------------
(* The Orchestrator: the calling process, lines 74-84 and 151-172.         *)

\* The caller invokes unshare_userns (again).
O_call ==
  /\ pcO \in {"idle", "returned"}
  /\ call < MaxCalls
  /\ call' = call + 1
  /\ pcO' = "pipe"
  /\ ret' = 0
  /\ fault' = [fault EXCEPT !.O = "none"]
  /\ UNCHANGED <<toolVars, inp, closes, stderr, childVars, holders, pipeBytes, unshareRet, ns, maps>>

\* O_pipe going on to fork() when pipe() failed.
O_pipe_failure_ignored ==
  /\ pcO = "pipe"
  /\ \/ /\ holders' = [holders EXCEPT ![call] = {<<"O", ReadEnd>>, <<"O", WriteEnd>>}]
        /\ pcO' = "fork"
        /\ UNCHANGED <<ret, fault>>
     \/ /\ pcO' = "fork"
        /\ fault' = [fault EXCEPT !.O = "pipe"]
        /\ UNCHANGED <<ret, holders>>
  /\ UNCHANGED <<toolVars, inp, closes, stderr, call, childVars, pipeBytes, unshareRet, ns, maps>>

\* Lines 74-77: pipe(pipefd); on failure return -1.
O_pipe ==
  /\ pcO = "pipe"
  /\ \/ /\ holders' = [holders EXCEPT ![call] = {<<"O", ReadEnd>>, <<"O", WriteEnd>>}]
        /\ pcO' = "fork"
        /\ UNCHANGED <<ret, fault>>
     \/ /\ pcO' = "returned"
        /\ ret' = -1
        /\ fault' = [fault EXCEPT !.O = "pipe"]
        /\ holders' = holders
  /\ UNCHANGED <<toolVars, inp, closes, stderr, call, childVars, pipeBytes, unshareRet, ns, maps>>

\* O_fork closing pipefd[0] twice when fork() failed.
O_fork_closes_read_end_twice ==
  /\ pcO = "fork"
  /\ \/ /\ holders' = Inherit(holders, call, "O", "D")
        /\ pcD' = [pcD EXCEPT ![call] = "close_w"]
        /\ pcO' = "close1"
        /\ UNCHANGED <<ret, fault, closes>>
     \/ /\ holders' = Close(Close(holders, call, "O", 0), call, "O", 0)
        /\ closes' = Closing(Closing(closes, call, "O", 0), call, "O", 0)
        /\ pcO' = "returned"
        /\ ret' = -1
        /\ fault' = [fault EXCEPT !.O = "fork"]
        /\ pcD' = pcD
  /\ UNCHANGED <<toolVars, inp, stderr, call, pcS, stD, stS, uidArgs, gidArgs, pipeBytes,
                 unshareRet, ns, maps>>

\* Lines 79-85: fork(); on failure close both ends and return -1; on
\* success the Delegate starts (case 0) with a copy of both descriptors.
O_fork ==
  /\ pcO = "fork"
  /\ \/ /\ holders' = Inherit(holders, call, "O", "D")
        /\ pcD' = [pcD EXCEPT ![call] = "close_w"]
        /\ pcO' = "close1"
        /\ UNCHANGED <<ret, fault, closes>>
     \/ /\ holders' = Close(Close(holders, call, "O", 0), call, "O", 1)
        /\ closes' = Closing(Closing(closes, call, "O", 0), call, "O", 1)
        /\ pcO' = "returned"
        /\ ret' = -1
        /\ fault' = [fault EXCEPT !.O = "fork"]
        /\ pcD' = pcD
  /\ UNCHANGED <<toolVars, inp, stderr, call, pcS, stD, stS, uidArgs, gidArgs, pipeBytes,
                 unshareRet, ns, maps>>

\* O_close1 closing the other descriptor: the write end stays open in the
\* parent.
O_close1_read_end ==
  /\ pcO = "close1"
  /\ holders' = Close(holders, call, "O", 0)
  /\ closes' = Closing(closes, call, "O", 0)
  /\ pcO' = "unshare"
  /\ UNCHANGED <<toolVars, inp, stderr, fault, call, ret, childVars, pipeBytes, unshareRet, ns, maps>>

\* O_close1 left out: the parent goes on to unshare with pipefd[1] open.
O_close1_skipped ==
  /\ pcO = "close1"
  /\ pcO' = "unshare"
  /\ UNCHANGED <<toolVars, inp, closes, stderr, fault, call, ret, childVars, holders,
                 pipeBytes, unshareRet, ns, maps>>

\* Line 152: close(pipefd[1]), the first statement of the parent branch.
O_close1 ==
  /\ pcO = "close1"
  /\ holders' = Close(holders, call, "O", 1)
  /\ closes' = Closing(closes, call, "O", 1)
  /\ pcO' = "unshare"
  /\ UNCHANGED <<toolVars, inp, stderr, fault, call, ret, childVars, pipeBytes, unshareRet, ns, maps>>

\* O_unshare without line 157: a failed unshare returns with pipefd[0] open.
O_unshare_failure_keeps_read_end ==
  /\ pcO = "unshare"
  /\ \/ /\ unshareRet' = [unshareRet EXCEPT ![call] = "ok"]
        /\ ns' = call
        /\ pcO' = "close2"
        /\ UNCHANGED <<ret, fault>>
     \/ /\ unshareRet' = [unshareRet EXCEPT ![call] = "fail"]
        /\ fault' = [fault EXCEPT !.O = "unshare"]
        /\ pcO' = "returned"
        /\ ret' = -1
        /\ ns' = ns
  /\ UNCHANGED <<toolVars, inp, closes, holders, stderr, call, childVars, pipeBytes, maps>>

\* Lines 156-159: unshare(CLONE_NEWUSER).  On success the caller is in a
\* new user namespace with no id mapped; on failure close(pipefd[0]) and
\* return -1.
O_unshare ==
  /\ pcO = "unshare"
  /\ \/ /\ unshareRet' = [unshareRet EXCEPT ![call] = "ok"]
        /\ ns' = call
        /\ pcO' = "close2"
        /\ UNCHANGED <<ret, holders, fault, closes>>
     \/ /\ unshareRet' = [unshareRet EXCEPT ![call] = "fail"]
        /\ fault' = [fault EXCEPT !.O = "unshare"]
        /\ holders' = Close(holders, call, "O", 0)
        /\ closes' = Closing(closes, call, "O", 0)
        /\ pcO' = "returned"
        /\ ret' = -1
        /\ ns' = ns
  /\ UNCHANGED <<toolVars, inp, stderr, call, childVars, pipeBytes, maps>>

\* Lines 160-162: close(pipefd[0]); if it reports -1 return -1.
O_close2 ==
  /\ pcO = "close2"
  /\ holders' = Close(holders, call, "O", 0)
  /\ closes' = Closing(closes, call, "O", 0)
  /\ \/ /\ pcO' = "waitpid"
        /\ UNCHANGED <<ret, fault>>
     \/ /\ pcO' = "returned"
        /\ ret' = -1
        /\ fault' = [fault EXCEPT !.O = "close"]
  /\ UNCHANGED <<toolVars, inp, stderr, call, childVars, pipeBytes, unshareRet, ns, maps>>

\* ReturnOf collapsing every failure of the Delegate to -1.
ReturnOf_minus_one(status) ==
  IF ~WIFEXITED(status) \/ WEXITSTATUS(status) # 0 THEN -1 ELSE 0

\* ReturnOf looking at the exit code only.
ReturnOf_exit_code(status) == WEXITSTATUS(status)

\* Lines 168-171: the value returned for the Delegate's wait status.
ReturnOf(status) ==
  IF ~WIFEXITED(status) \/ WEXITSTATUS(status) # 0 THEN status ELSE 0

\* O_waitpid that does not block (as with WNOHANG): status stays 0 and the
\* Delegate is not reaped.
O_waitpid_nohang ==
  /\ pcO = "waitpid"
  /\ \/ /\ ret' = ReturnOf(0)
        /\ pcO' = "returned"
        /\ UNCHANGED <<pcD, fault>>
     \/ /\ pcO' = "exited"
        /\ fault' = [fault EXCEPT !.O = "waitpid"]
        /\ UNCHANGED <<pcD, ret>>
  /\ UNCHANGED <<toolVars, inp, closes, stderr, call, pcS, stD, stS, uidArgs, gidArgs, holders,
                 pipeBytes, unshareRet, ns, maps>>

\* Lines 164-171: waitpid(child1).  It blocks until the Delegate has
\* terminated, reaps it and returns ReturnOf(status); if waitpid itself
\* fails the calling process is ended by exit(EXIT_FAILURE).
O_waitpid ==
  /\ pcO = "waitpid"
  /\ \/ /\ pcD[call] = "zombie"
        /\ pcD' = [pcD EXCEPT ![call] = "gone"]
        /\ ret' = ReturnOf(stD[call])
        /\ pcO' = "returned"
        /\ fault' = fault
     \/ /\ pcO' = "exited"
        /\ fault' = [fault EXCEPT !.O = "waitpid"]
        /\ UNCHANGED <<pcD, ret>>
  /\ UNCHANGED <<toolVars, inp, closes, stderr, call, pcS, stD, stS, uidArgs, gidArgs, holders,
                 pipeBytes, unshareRet, ns, maps>>

Orchestrator ==
  \/ O_call
  \/ O_pipe
  \/ O_fork
  \/ O_close1
  \/ O_unshare
  \/ O_close2
  \/ O_waitpid

----------------------------------------------------------------------------
(* The Delegate: Child 1, lines 85-103 and 122-149.                        *)

\* DelegateFails leaving with another exit code.
DelegateFails_code2(c) ==
  /\ pcD' = [pcD EXCEPT ![c] = "zombie"]
  /\ stD' = [stD EXCEPT ![c] = ExitedWith(2)]

\* exit(EXIT_FAILURE) of the Delegate of call c.
DelegateFails(c) ==
  /\ pcD' = [pcD EXCEPT ![c] = "zombie"]
  /\ stD' = [stD EXCEPT ![c] = ExitedWith(EXIT_FAILURE)]

\* D_close_w without the test of the result: the Delegate goes on to read
\* after a failed close.
D_close_w_failure_ignored(c) ==
  /\ pcD[c] = "close_w"
  /\ holders' = Close(holders, c, "D", 1)
  /\ closes' = Closing(closes, c, "D", 1)
  /\ pcD' = [pcD EXCEPT ![c] = "read"]
  /\ \/ fault' = fault
     \/ fault' = [fault EXCEPT !.D[c] = "close"]
  /\ UNCHANGED <<toolVars, inp, stderr, call, pcO, ret, pcS, stD, stS, uidArgs, gidArgs,
                 pipeBytes, unshareRet, ns, maps>>

\* Lines 90-93: close(pipefd[1]); if it reports -1 exit(EXIT_FAILURE).
D_close_w(c) ==
  /\ pcD[c] = "close_w"
  /\ holders' = Close(holders, c, "D", 1)
  /\ closes' = Closing(closes, c, "D", 1)
  /\ \/ /\ pcD' = [pcD EXCEPT ![c] = "read"]
        /\ UNCHANGED <<stD, fault>>
     \/ /\ DelegateFails(c)
        /\ fault' = [fault EXCEPT !.D[c] = "close"]
  /\ UNCHANGED <<toolVars, inp, stderr, call, pcO, ret, pcS, stS, uidArgs, gidArgs, pipeBytes,
                 unshareRet, ns, maps>>

\* D_read on a descriptor that does not block.
D_read_nonblocking(c) ==
  /\ pcD[c] = "read"
  /\ pipeBytes' = [pipeBytes EXCEPT ![c] = IF @ > 0 THEN @ - 1 ELSE @]
  /\ pcD' = [pcD EXCEPT ![c] = "close_r"]
  /\ UNCHANGED <<toolVars, inp, closes, stderr, fault, call, pcO, ret, pcS, stD, stS, uidArgs, gidArgs,
                 holders, unshareRet, ns, maps>>

\* Lines 94-97: read(pipefd[0], &buf, 1).  It returns when a byte is
\* buffered (and takes it) or when no descriptor of the write end is open;
\* the result is not looked at.
D_read(c) ==
  /\ pcD[c] = "read"
  /\ pipeBytes[c] > 0 \/ WriteEndClosed(c)
  /\ pipeBytes' = [pipeBytes EXCEPT ![c] = IF @ > 0 THEN @ - 1 ELSE @]
  /\ pcD' = [pcD EXCEPT ![c] = "close_r"]
  /\ UNCHANGED <<toolVars, inp, closes, stderr, fault, call, pcO, ret, pcS, stD, stS, uidArgs, gidArgs,
                 holders, unshareRet, ns, maps>>

\* D_close_r left out: the Delegate keeps the read end.
D_close_r_skipped(c) ==
  /\ pcD[c] = "close_r"
  /\ pcD' = [pcD EXCEPT ![c] = "fork2"]
  /\ UNCHANGED <<toolVars, inp, closes, stderr, fault, call, pcO, ret, pcS, stD, stS, uidArgs,
                 gidArgs, holders, pipeBytes, unshareRet, ns, maps>>

\* Line 98: close(pipefd[0]).
D_close_r(c) ==
  /\ pcD[c] = "close_r"
  /\ holders' = Close(holders, c, "D", 0)
  /\ closes' = Closing(closes, c, "D", 0)
  /\ pcD' = [pcD EXCEPT ![c] = "fork2"]
  /\ UNCHANGED <<toolVars, inp, stderr, fault, call, pcO, ret, pcS, stD, stS, uidArgs, gidArgs,
                 pipeBytes, unshareRet, ns, maps>>

\* D_fork2 without case -1: a failed fork() goes on to the default branch.
D_fork2_failure_falls_through(c) ==
  /\ pcD[c] = "fork2"
  /\ \/ /\ pcS' = [pcS EXCEPT ![c] = "exec_gid"]
        /\ pcD' = [pcD EXCEPT ![c] = "wait2"]
        /\ holders' = Inherit(holders, c, "D", "S")
        /\ UNCHANGED <<stD, fault>>
     \/ /\ pcD' = [pcD EXCEPT ![c] = "wait2"]
        /\ fault' = [fault EXCEPT !.D[c] = "fork"]
        /\ UNCHANGED <<stD, pcS, holders>>
  /\ UNCHANGED <<toolVars, inp, closes, stderr, call, pcO, ret, stS, uidArgs, gidArgs, pipeBytes,
                 unshareRet, ns, maps>>

\* Lines 100-104: fork(); on failure exit(EXIT_FAILURE); on success the
\* Sub-delegate starts (case 0) with a copy of the Delegate's descriptors.
D_fork2(c) ==
  /\ pcD[c] = "fork2"
  /\ \/ /\ pcS' = [pcS EXCEPT ![c] = "exec_gid"]
        /\ pcD' = [pcD EXCEPT ![c] = "wait2"]
        /\ holders' = Inherit(holders, c, "D", "S")
        /\ UNCHANGED <<stD, fault>>
     \/ /\ DelegateFails(c)
        /\ fault' = [fault EXCEPT !.D[c] = "fork"]
        /\ UNCHANGED <<pcS, holders>>
  /\ UNCHANGED <<toolVars, inp, closes, stderr, call, pcO, ret, stS, uidArgs, gidArgs, pipeBytes,
                 unshareRet, ns, maps>>

\* Child2Ok without the test of the exit code.
Child2Ok_exited_only(status) == WIFEXITED(status)

\* Line 128: the test the Delegate applies to the Sub-delegate's status.
Child2Ok(status) == WIFEXITED(status) /\ WEXITSTATUS(status) = 0

\* D_wait2 without the test of the Sub-delegate's status.
D_wait2_no_status_test(c) ==
  /\ pcD[c] = "wait2"
  /\ \/ /\ pcS[c] = "zombie"
        /\ pcS' = [pcS EXCEPT ![c] = "gone"]
        /\ pcD' = [pcD EXCEPT ![c] = "exec_uid"]
        /\ UNCHANGED <<stD, fault>>
     \/ /\ DelegateFails(c)
        /\ fault' = [fault EXCEPT !.D[c] = "waitpid"]
        /\ pcS' = pcS
  /\ UNCHANGED <<toolVars, inp, closes, stderr, call, pcO, ret, stS, uidArgs, gidArgs, holders,
                 pipeBytes, unshareRet, ns, maps>>

\* Lines 122-131: waitpid(child2).  If waitpid fails, exit(EXIT_FAILURE);
\* else it blocks until the Sub-delegate terminated, reaps it, and the
\* Delegate goes on only if newgidmap exited with code 0.
D_wait2(c) ==
  /\ pcD[c] = "wait2"
  /\ \/ /\ pcS[c] = "zombie"
        /\ pcS' = [pcS EXCEPT ![c] = "gone"]
        /\ IF Child2Ok(stS[c])
             THEN /\ pcD' = [pcD EXCEPT ![c] = "exec_uid"]
                  /\ stD' = stD
             ELSE DelegateFails(c)
        /\ fault' = fault
     \/ /\ DelegateFails(c)
        /\ fault' = [fault EXCEPT !.D[c] = "waitpid"]
        /\ pcS' = pcS
  /\ UNCHANGED <<toolVars, inp, closes, stderr, call, pcO, ret, stS, uidArgs, gidArgs, holders,
                 pipeBytes, unshareRet, ns, maps>>

\* UidArgs with the gid root pasted from the newgidmap block.
UidArgs_gid_root(i) ==
  <<"newuidmap", i.pid_str, "0", i.gid_map_outside_root, "1", "1",
    i.uid_map_outside_sub_start, i.uid_map_len>>

\* Lines 135-144: argv of newuidmap.
UidArgs(i) ==
  <<"newuidmap", i.pid_str, "0", i.uid_map_outside_root, "1", "1",
    i.uid_map_outside_sub_start, i.uid_map_len>>

\* Lines 145-148: execv("/usr/bin/newuidmap", args); if it fails,
\* perror("exec newuidmap") and exit(EXIT_FAILURE).
D_exec_uid(c) ==
  /\ pcD[c] = "exec_uid"
  /\ \/ /\ pcD' = [pcD EXCEPT ![c] = "uid_helper"]
        /\ uidArgs' = [uidArgs EXCEPT ![c] = UidArgs(inp)]
        /\ UNCHANGED <<stD, fault, stderr>>
     \/ /\ stderr' = [stderr EXCEPT ![c] = Append(@, "exec newuidmap")]
        /\ DelegateFails(c)
        /\ fault' = [fault EXCEPT !.D[c] = "execv"]
        /\ uidArgs' = uidArgs
  /\ UNCHANGED <<toolVars, inp, closes, call, pcO, ret, pcS, stS, gidArgs, holders, pipeBytes,
                 unshareRet, ns, maps>>

\* The two (namespace id, outside id, count) triples of a helper's argv.
Triples(args) ==
  << <<args[3], args[4], args[5]>>, <<args[6], args[7], args[8]>> >>

\* D_uid_helper as a transaction: a failing newuidmap takes the GID mapping
\* of the namespace back.
D_uid_helper_rolls_back(c) ==
  /\ pcD[c] = "uid_helper"
  /\ \E st \in HelperOutcomes :
       /\ stD' = [stD EXCEPT ![c] = st]
       /\ maps' = IF st = 0
                    THEN [maps EXCEPT ![ns].uid = Triples(uidArgs[c])]
                    ELSE [maps EXCEPT ![ns].gid = <<>>]
  /\ pcD' = [pcD EXCEPT ![c] = "zombie"]
  /\ UNCHANGED <<toolVars, inp, closes, stderr, fault, call, pcO, ret, pcS, stS, uidArgs,
                 gidArgs, holders, pipeBytes, unshareRet, ns>>

\* newuidmap runs in the Delegate's process: it ends with some wait
\* status; when it exits 0 it has written its triples to the uid map of the
\* namespace the target (the caller) is in at that moment.
D_uid_helper(c) ==
  /\ pcD[c] = "uid_helper"
  /\ \E st \in HelperOutcomes :
       /\ stD' = [stD EXCEPT ![c] = st]
       /\ maps' = IF st = 0
                    THEN [maps EXCEPT ![ns].uid = Triples(uidArgs[c])]
                    ELSE maps
  /\ pcD' = [pcD EXCEPT ![c] = "zombie"]
  /\ UNCHANGED <<toolVars, inp, closes, stderr, fault, call, pcO, ret, pcS, stS, uidArgs, gidArgs, holders,
                 pipeBytes, unshareRet, ns>>

Delegate(c) ==
  \/ D_close_w(c)
  \/ D_read(c)
  \/ D_close_r(c)
  \/ D_fork2(c)
  \/ D_wait2(c)
  \/ D_exec_uid(c)
  \/ D_uid_helper(c)

----------------------------------------------------------------------------
(* The Sub-delegate: Child 2, lines 104-121.                               *)

\* Lines 106-115: argv of newgidmap.
GidArgs(i) ==
  <<"newgidmap", i.pid_str, "0", i.gid_map_outside_root, "1", "1",
    i.gid_map_outside_sub_start, i.gid_map_len>>

\* S_exec_gid without lines 118 and 120: after a failed execv the
\* Sub-delegate leaves the inner switch and reaches line 134.
S_exec_gid_falls_through(c) ==
  /\ pcS[c] = "exec_gid"
  /\ \/ /\ pcS' = [pcS EXCEPT ![c] = "gid_helper"]
        /\ gidArgs' = [gidArgs EXCEPT ![c] = GidArgs(inp)]
        /\ UNCHANGED <<stS, fault, stderr>>
     \/ /\ stderr' = [stderr EXCEPT ![c] = Append(@, "exec newgidmap")]
        /\ pcS' = [pcS EXCEPT ![c] = "exec_uid"]
        /\ fault' = [fault EXCEPT !.S[c] = "execv"]
        /\ UNCHANGED <<stS, gidArgs>>
  /\ UNCHANGED <<toolVars, inp, closes, call, pcO, ret, pcD, stD, uidArgs, holders, pipeBytes,
                 unshareRet, ns, maps>>

\* S_exec_gid without line 118: a failed execv reaches exit(EXIT_SUCCESS)
\* at line 120.
S_exec_gid_exit_success(c) ==
  /\ pcS[c] = "exec_gid"
  /\ \/ /\ pcS' = [pcS EXCEPT ![c] = "gid_helper"]
        /\ gidArgs' = [gidArgs EXCEPT ![c] = GidArgs(inp)]
        /\ UNCHANGED <<stS, fault, stderr>>
     \/ /\ stderr' = [stderr EXCEPT ![c] = Append(@, "exec newgidmap")]
        /\ pcS' = [pcS EXCEPT ![c] = "zombie"]
        /\ stS' = [stS EXCEPT ![c] = ExitedWith(0)]
        /\ fault' = [fault EXCEPT !.S[c] = "execv"]
        /\ gidArgs' = gidArgs
  /\ UNCHANGED <<toolVars, inp, closes, call, pcO, ret, pcD, stD, uidArgs, holders, pipeBytes,
                 unshareRet, ns, maps>>

\* Lines 116-119: execv("/usr/bin/newgidmap", args); if it fails,
\* perror("exec newgidmap") and exit(EXIT_FAILURE).
S_exec_gid(c) ==
  /\ pcS[c] = "exec_gid"
  /\ \/ /\ pcS' = [pcS EXCEPT ![c] = "gid_helper"]
        /\ gidArgs' = [gidArgs EXCEPT ![c] = GidArgs(inp)]
        /\ UNCHANGED <<stS, fault, stderr>>
     \/ /\ stderr' = [stderr EXCEPT ![c] = Append(@, "exec newgidmap")]
        /\ pcS' = [pcS EXCEPT ![c] = "zombie"]
        /\ stS' = [stS EXCEPT ![c] = ExitedWith(EXIT_FAILURE)]
        /\ fault' = [fault EXCEPT !.S[c] = "execv"]
        /\ gidArgs' = gidArgs
  /\ UNCHANGED <<toolVars, inp, closes, call, pcO, ret, pcD, stD, uidArgs, holders, pipeBytes,
                 unshareRet, ns, maps>>

\* newgidmap runs in the Sub-delegate's process, as newuidmap above.
S_gid_helper(c) ==
  /\ pcS[c] = "gid_helper"
  /\ \E st \in HelperOutcomes :
       /\ stS' = [stS EXCEPT ![c] = st]
       /\ maps' = IF st = 0
                    THEN [maps EXCEPT ![ns].gid = Triples(gidArgs[c])]
                    ELSE maps
  /\ pcS' = [pcS EXCEPT ![c] = "zombie"]
  /\ UNCHANGED <<toolVars, inp, closes, stderr, fault, call, pcO, ret, pcD, stD, uidArgs, gidArgs, holders,
                 pipeBytes, unshareRet, ns>>

SubDelegate(c) ==
  \/ S_exec_gid(c)
  \/ S_gid_helper(c)

----------------------------------------------------------------------------
(* rename_shadowed.c: the rename that is LD_PRELOADed into yum or dnf.     *)
(*                                                                         *)
(* A C string is the sequence of its characters.  The file system is the   *)
(* environment: it is given by the tables FileSystem (what lstat sees) and *)
(* Directories (what canonicalize_file_name returns) and does not change   *)
(* while rename runs; what libc's rename does to it is not part of the     *)
(* library.  dlsym(RTLD_NEXT, "rename") finds libc's rename.               *)

\* Number of threads of the process that call rename concurrently.
NThreads == 2

Threads == 1..NThreads

\* The null char pointer (no string is this sequence).
NULL == <<"NULL">>

\* The null function pointer, and the address of libc's rename.
NullFn == "NULL"
LibcRename == "libc rename"

\* The paths of the examples.  The working directory is /d; /l is a
\* symbolic link to /d; /m is another mounted file system; /s is where the
\* shadowed originals are.
P_d_f == <<"/", "d", "/", "f">>
P_f == <<"f">>
P_l_f == <<"/", "l", "/", "f">>
P_d_g == <<"/", "d", "/", "g">>
P_d_h == <<"/", "d", "/", "h">>
P_d_n == <<"/", "d", "/", "n">>
P_d_u == <<"/", "d", "/", "u">>
P_k == <<"/", "k">>
P_m_e == <<"/", "m", "/", "e">>

\* What lstat reports for each path that exists: /d/f (also reached as f
\* and /l/f) and its hard link /d/h; /d/g, whose shadow is a directory;
\* the directory /d/u; /k in the root directory; /m/e, which has the inode
\* number of /d/g on another device; and the shadowed originals of /d/f,
\* /d/g, /k and /m/e.  /d/h has no shadowed original and /d/n does not exist.
FileSystem ==
  { [path |-> P_d_f, ino |-> 11, dev |-> 1, dir |-> FALSE],
    [path |-> P_f, ino |-> 11, dev |-> 1, dir |-> FALSE],
    [path |-> P_l_f, ino |-> 11, dev |-> 1, dir |-> FALSE],
    [path |-> P_d_h, ino |-> 11, dev |-> 1, dir |-> FALSE],
    [path |-> P_d_g, ino |-> 12, dev |-> 1, dir |-> FALSE],
    [path |-> P_d_u, ino |-> 13, dev |-> 1, dir |-> TRUE],
    [path |-> P_k, ino |-> 14, dev |-> 1, dir |-> FALSE],
    [path |-> P_m_e, ino |-> 12, dev |-> 3, dir |-> FALSE],
    [path |-> <<"/", "s", "/", "d", "/", "f">>, ino |-> 21, dev |-> 2, dir |-> FALSE],
    [path |-> <<"/", "s", "/", "d", "/", "g">>, ino |-> 22, dev |-> 2, dir |-> TRUE],
    [path |-> <<"/", "s", "/", "k">>, ino |-> 24, dev |-> 2, dir |-> FALSE],
    [path |-> <<"/", "s", "/", "m", "/", "e">>, ino |-> 25, dev |-> 2, dir |-> FALSE] }

\* lstat(path, &st): ok is FALSE when it returns non-zero.
lstat(path) ==
  IF \E e \in FileSystem : e.path = path
    THEN LET e == CHOOSE x \in FileSystem : x.path = path
         IN  [ok |-> TRUE, st_ino |-> e.ino, st_dev |-> e.dev, isdir |-> e.dir]
    ELSE [ok |-> FALSE, st_ino |-> 0, st_dev |-> 0, isdir |-> FALSE]

\* canonicalize_file_name(dirname) for the directory names of the examples.
Directories ==
  { [name |-> <<"/", "d", "/">>, real |-> <<"/", "d">>],
    [name |-> <<".">>, real |-> <<"/", "d">>],
    [name |-> <<"/", "l", "/">>, real |-> <<"/", "d">>],
    [name |-> <<"/", "m", "/">>, real |-> <<"/", "m">>],
    [name |-> <<"/">>, real |-> <<"/">>] }

canonicalize_file_name(dirname) ==
  IF \E e \in Directories : e.name = dirname
    THEN (CHOOSE e \in Directories : e.name = dirname).real
    ELSE NULL

\* The values getenv("ANTLIR_SHADOWED_PATHS_ROOT") can give the constructor
\* (lines 81-96): unset, "/s", and the empty string.
Roots == {NULL, <<"/", "s">>, <<>>}

\* The (old, new) pairs rename is called with.
RenamePairs ==
  { [old |-> P_d_g, new |-> P_d_f], [old |-> P_d_g, new |-> P_f],
    [old |-> P_d_g, new |-> P_l_f], [old |-> P_d_g, new |-> P_k],
    [old |-> P_d_g, new |-> P_m_e], [old |-> P_d_h, new |-> P_d_f],
    [old |-> P_d_n, new |-> P_d_f], [old |-> P_d_f, new |-> P_d_n],
    [old |-> P_d_f, new |-> P_d_u], [old |-> P_d_f, new |-> P_d_g],
    [old |-> P_d_f, new |-> P_d_h] }

\* GNU basename (line 112): what follows the last '/', the whole string
\* when there is none.
RECURSIVE LastSlash(_, _)
LastSlash(path, i) ==
  IF i = 0 THEN 0 ELSE IF path[i] = "/" THEN i ELSE LastSlash(path, i - 1)

basename(path) == SubSeq(path, LastSlash(path, Len(path)) + 1, Len(path))

\* Lines 106-148.  failed: one of strdup, strndup, canonicalize_file_name
\* (for lack of memory) or malloc returned NULL.
get_shadowed_original(path, failed) ==
  IF g_shadowed_paths_root = NULL THEN NULL
  ELSE
    LET base == basename(path)
        len_base == Len(base)
        len_path == Len(path)
        dirname == IF len_base = len_path THEN <<".">>
                   ELSE SubSeq(path, 1, len_path - len_base)
        realdir == canonicalize_file_name(dirname)
    IN  IF failed THEN NULL
        ELSE IF realdir # NULL /\ Head(realdir) = "/"
          THEN g_shadowed_paths_root \o realdir
                 \o (IF Len(realdir) = 1 THEN <<>> ELSE <<"/">>) \o base
          ELSE NULL

\* Lines 161-181: both lstat calls succeed, new is not a directory and is
\* not the inode of old, so that line 182 is reached.
ReachesShadowLookup(old, new) ==
  LET st == lstat(new)
      st_old == lstat(old)
  IN  /\ st.ok /\ ~st.isdir
      /\ st_old.ok
      /\ ~(st.st_ino = st_old.st_ino /\ st.st_dev = st_old.st_dev)

\* Lines 161-193.
get_shadowed_rename_dest(old, new, failed) ==
  IF ~ReachesShadowLookup(old, new) THEN NULL
  ELSE
    LET replaced_new == get_shadowed_original(new, failed)
    IN  IF replaced_new = NULL THEN NULL
        ELSE IF ~lstat(replaced_new).ok \/ lstat(replaced_new).isdir THEN NULL
        ELSE replaced_new

RenameInit ==
  /\ g_shadowed_paths_root \in Roots
  /\ renameArgs \in RenamePairs
  /\ memoized_real_rename = NullFn
  /\ pcR = [t \in Threads |-> "idle"]
  /\ real_rename = [t \in Threads |-> NullFn]
  /\ original = [t \in Threads |-> NULL]
  /\ allocFailed = [t \in Threads |-> FALSE]
  /\ realCalls = [t \in Threads |-> <<>>]
  /\ retR = [t \in Threads |-> 0]
  /\ stderrR = <<>>

\* Thread t calls rename(old, new): line 201.
R_enter(t) ==
  /\ pcR[t] = "idle"
  /\ pcR' = [pcR EXCEPT ![t] = "load"]
  /\ real_rename' = [real_rename EXCEPT ![t] = NullFn]
  /\ UNCHANGED <<unshareVars, capsVars, g_shadowed_paths_root, renameArgs, memoized_real_rename,
                 original, allocFailed, realCalls, retR, stderrR>>

\* R_load without the test at line 203: dlsym is never called.
R_load_no_null_test(t) ==
  /\ pcR[t] = "load"
  /\ real_rename' = [real_rename EXCEPT ![t] = memoized_real_rename]
  /\ pcR' = [pcR EXCEPT ![t] = "dest"]
  /\ UNCHANGED <<unshareVars, capsVars, g_shadowed_paths_root, renameArgs, memoized_real_rename,
                 original, allocFailed, realCalls, retR, stderrR>>

\* Lines 202-203: the atomic load of memoized_real_rename, and the test
\* whether it is NULL.
R_load(t) ==
  /\ pcR[t] = "load"
  /\ real_rename' = [real_rename EXCEPT ![t] = memoized_real_rename]
  /\ pcR' = [pcR EXCEPT ![t] =
               IF memoized_real_rename = NullFn THEN "dlsym" ELSE "dest"]
  /\ UNCHANGED <<unshareVars, capsVars, g_shadowed_paths_root, renameArgs, memoized_real_rename,
                 original, allocFailed, realCalls, retR, stderrR>>

\* Line 204: real_rename = dlsym(RTLD_NEXT, "rename").
R_dlsym(t) ==
  /\ pcR[t] = "dlsym"
  /\ real_rename' = [real_rename EXCEPT ![t] = LibcRename]
  /\ pcR' = [pcR EXCEPT ![t] = "store"]
  /\ UNCHANGED <<unshareVars, capsVars, g_shadowed_paths_root, renameArgs, memoized_real_rename,
                 original, allocFailed, realCalls, retR, stderrR>>

\* Line 207: the atomic store to memoized_real_rename.
R_store(t) ==
  /\ pcR[t] = "store"
  /\ memoized_real_rename' = real_rename[t]
  /\ pcR' = [pcR EXCEPT ![t] = "dest"]
  /\ UNCHANGED <<unshareVars, capsVars, g_shadowed_paths_root, renameArgs, real_rename,
                 original, allocFailed, realCalls, retR, stderrR>>

\* R_dest without lines 187-190: the shadow path is returned whether or not
\* a file is there.
R_dest_shadow_not_checked(t) ==
  /\ pcR[t] = "dest"
  /\ \E failed \in BOOLEAN :
       /\ allocFailed' = [allocFailed EXCEPT ![t] =
            failed /\ g_shadowed_paths_root # NULL
              /\ ReachesShadowLookup(renameArgs.old, renameArgs.new)]
       /\ original' = [original EXCEPT ![t] =
            IF ReachesShadowLookup(renameArgs.old, renameArgs.new)
              THEN get_shadowed_original(renameArgs.new, failed) ELSE NULL]
  /\ pcR' = [pcR EXCEPT ![t] = "call"]
  /\ UNCHANGED <<unshareVars, capsVars, g_shadowed_paths_root, renameArgs, memoized_real_rename,
                 real_rename, realCalls, retR, stderrR>>

\* Line 210: original = get_shadowed_rename_dest(old, new); an allocation
\* in it may fail.
R_dest(t) ==
  /\ pcR[t] = "dest"
  /\ \E failed \in BOOLEAN :
       /\ allocFailed' = [allocFailed EXCEPT ![t] =
            failed /\ g_shadowed_paths_root # NULL
              /\ ReachesShadowLookup(renameArgs.old, renameArgs.new)]
       /\ original' = [original EXCEPT ![t] =
            get_shadowed_rename_dest(renameArgs.old, renameArgs.new, failed)]
  /\ pcR' = [pcR EXCEPT ![t] = "call"]
  /\ UNCHANGED <<unshareVars, capsVars, g_shadowed_paths_root, renameArgs, memoized_real_rename,
                 real_rename, realCalls, retR, stderrR>>

\* Lines 211-225: the call through real_rename, with original as the
\* destination when it is not NULL (then a line goes to stderr first and
\* original is freed after); what the real rename returns is returned.  A
\* call through a null pointer ends the process.
R_call(t) ==
  /\ pcR[t] = "call"
  /\ IF real_rename[t] = NullFn
       THEN /\ pcR' = [pcR EXCEPT ![t] = "crashed"]
            /\ UNCHANGED <<realCalls, retR, stderrR, original>>
       ELSE /\ realCalls' = [realCalls EXCEPT ![t] = Append(@,
                 [fn |-> real_rename[t], old |-> renameArgs.old,
                  new |-> IF original[t] # NULL THEN original[t] ELSE renameArgs.new])]
            /\ stderrR' = IF original[t] # NULL
                            THEN Append(stderrR, <<renameArgs.old, renameArgs.new, original[t]>>)
                            ELSE stderrR
            /\ original' = [original EXCEPT ![t] = NULL]
            /\ \E r \in {0, -1} : retR' = [retR EXCEPT ![t] = r]
            /\ pcR' = [pcR EXCEPT ![t] = "done"]
  /\ UNCHANGED <<unshareVars, capsVars, g_shadowed_paths_root, renameArgs, memoized_real_rename,
                 real_rename, allocFailed>>

RenameNext ==
  \E t \in Threads :
    \/ R_enter(t)
    \/ R_load(t)
    \/ R_dlsym(t)
    \/ R_store(t)
    \/ R_dest(t)
    \/ R_call(t)

----------------------------------------------------------------------------
(* clonecaps.c.                                                            *)
(*                                                                         *)
(* A C string and the content of a file are the sequence of their          *)
(* characters; files hold no NUL character.  A __u64 is the sequence of    *)
(* its 16 hexadecimal digits (values 0..15), most significant first.       *)
(* libcap-ng is an opaque library: capng_update either records the         *)
(* capability or fails, capng_have_capability reports what was recorded,   *)
(* and a capng_apply that reports success has either set the kernel's sets *)
(* to the recorded ones or (the bugs linked at lines 307 and 338) has left *)
(* the bounding set as it was.                                             *)

\* sizeof(buf), line 153.
BufSize == 64

U64Zero == [i \in 1..16 |-> 0]
U64Max == [i \in 1..16 |-> 15]

LowerHex == <<"0", "1", "2", "3", "4", "5", "6", "7", "8", "9",
              "a", "b", "c", "d", "e", "f">>
UpperHex == <<"0", "1", "2", "3", "4", "5", "6", "7", "8", "9",
              "A", "B", "C", "D", "E", "F">>

\* isxdigit and the value of a hexadecimal digit.
IsHex(ch) == \E i \in 1..16 : LowerHex[i] = ch \/ UpperHex[i] = ch
HexVal(ch) == (CHOOSE i \in 1..16 : LowerHex[i] = ch \/ UpperHex[i] = ch) - 1

\* The capability cap (0..63) is in the set bits.
HasCap(bits, cap) == (bits[16 - (cap \div 4)] \div (2 ^ (cap % 4))) % 2 = 1

\* The bits of the capabilities 0..last: what the loops at lines 71 and 93
\* can see of a value.
UpTo(bits, last) ==
  [i \in 1..16 |->
     LET low == 4 * (16 - i)
     IN  IF last >= low + 3 THEN bits[i]
         ELSE IF last < low THEN 0
         ELSE bits[i] % (2 ^ (last - low + 1))]

\* 2^64 - bits: what strtoull gives for a number with a minus sign.
RECURSIVE AddOne(_, _)
AddOne(bits, i) ==
  IF i = 0 THEN bits
  ELSE IF bits[i] = 15 THEN AddOne([bits EXCEPT ![i] = 0], i - 1)
  ELSE [bits EXCEPT ![i] = @ + 1]

Negated(bits) == AddOne([i \in 1..16 |-> 15 - bits[i]], 16)

\* The value of a run of hexadecimal digits; ULLONG_MAX when it does not
\* fit in 64 bits.
DigitsValue(digits) ==
  LET n == Len(digits)
  IN  IF n <= 16
        THEN [i \in 1..16 |-> IF i <= 16 - n THEN 0 ELSE HexVal(digits[i - (16 - n)])]
        ELSE IF \A i \in 1..(n - 16) : digits[i] = "0"
          THEN [i \in 1..16 |-> HexVal(digits[n - 16 + i])]
          ELSE U64Max

\* isspace (the vertical tab is left out).
WhiteSpace == {" ", "\t", "\n", "\r", "\f"}

RECURSIVE SkipSpace(_, _)
SkipSpace(str, i) ==
  IF i <= Len(str) /\ str[i] \in WhiteSpace THEN SkipSpace(str, i + 1) ELSE i

RECURSIVE DigitsEnd(_, _)
DigitsEnd(str, i) ==
  IF i <= Len(str) /\ IsHex(str[i]) THEN DigitsEnd(str, i + 1) ELSE i

\* strtoull(str, &end, 16) of the C library: white space, an optional
\* sign, an optional 0x or 0X, then hexadecimal digits.  consumed is
\* end - str (0 when there is no digit).
strtoull(str) ==
  LET i == SkipSpace(str, 1)
      signed == i <= Len(str) /\ str[i] \in {"+", "-"}
      j == IF signed THEN i + 1 ELSE i
      k == IF /\ j + 2 <= Len(str)
              /\ str[j] = "0" /\ str[j + 1] \in {"x", "X"}
              /\ IsHex(str[j + 2])
             THEN j + 2 ELSE j
      e == DigitsEnd(str, k)
      v == DigitsValue(SubSeq(str, k, e - 1))
  IN  IF e = k THEN [consumed |-> 0, bits |-> U64Zero]
      ELSE [consumed |-> e - 1,
            bits |-> IF signed /\ str[i] = "-" THEN Negated(v) ELSE v]

\* The five classes, with the prefix of their line, in the order of lines
\* 164-168, and the field of cap_bits_t each goes to (lines 196-206).
CapClasses ==
  << [pref |-> <<"C", "a", "p", "I", "n", "h", ":", "\t">>,
      type |-> "CAPNG_INHERITABLE", field |-> "inheritable"],
     [pref |-> <<"C", "a", "p", "P", "r", "m", ":", "\t">>,
      type |-> "CAPNG_PERMITTED", field |-> "permitted"],
     [pref |-> <<"C", "a", "p", "E", "f", "f", ":", "\t">>,
      type |-> "CAPNG_EFFECTIVE", field |-> "effective"],
     [pref |-> <<"C", "a", "p", "B", "n", "d", ":", "\t">>,
      type |-> "CAPNG_BOUNDING_SET", field |-> "bounding_set"],
     [pref |-> <<"C", "a", "p", "A", "m", "b", ":", "\t">>,
      type |-> "CAPNG_AMBIENT", field |-> "ambient"] >>

\* Line 134: memset(cap_bits, 0, sizeof(*cap_bits)).
ZeroCapBits ==
  [inheritable |-> U64Zero, permitted |-> U64Zero, effective |-> U64Zero,
   bounding_set |-> U64Zero, ambient |-> U64Zero]

\* Lines 137-141.
expected_cap_types == {CapClasses[i].type : i \in 1..5}

\* Lines 117-129: buf starts with pref.
_match(buf, pref) ==
  Len(buf) >= Len(pref) /\ SubSeq(buf, 1, Len(pref)) = pref

\* fgets(buf, sizeof(buf), status_file): how many characters of rest go to
\* buf, n being taken already: up to BufSize - 1, ending with a newline.
RECURSIVE FgetsLen(_, _)
FgetsLen(rest, n) ==
  IF n = Len(rest) \/ n = BufSize - 1 THEN n
  ELSE IF rest[n + 1] = "\n" THEN n + 1
  ELSE FgetsLen(rest, n + 1)

\* Lines 155-218: the fgets loop over what is left of the file and the test
\* after it.  ok is the value returned.
RECURSIVE read_cap_lines(_, _, _, _)
read_cap_lines(rest, continuing_line, actual_cap_types, cap_bits) ==
  IF rest = <<>>
    THEN [ok |-> actual_cap_types = expected_cap_types, cap_bits |-> cap_bits]
    ELSE
      LET n == FgetsLen(rest, 0)
          buf == SubSeq(rest, 1, n)
          tail == SubSeq(rest, n + 1, Len(rest))
          skip_buf == continuing_line
          continuing == buf[n] # "\n"
          matching == {i \in 1..5 : _match(buf, CapClasses[i].pref)}
      IN  IF skip_buf \/ matching = {}
            THEN read_cap_lines(tail, continuing, actual_cap_types, cap_bits)
            ELSE
              LET class == CapClasses[CHOOSE i \in matching : TRUE]
                  value == SubSeq(buf, Len(class.pref) + 1, n)
                  parsed == strtoull(value)
              IN  IF class.type \in actual_cap_types
                    THEN [ok |-> FALSE, cap_bits |-> cap_bits]
                  ELSE IF parsed.consumed # 16
                          \/ ~(Len(value) > 16 /\ value[17] = "\n")
                    THEN [ok |-> FALSE, cap_bits |-> cap_bits]
                  ELSE read_cap_lines(
                         tail, continuing, actual_cap_types \cup {class.type},
                         [cap_bits EXCEPT ![class.field] = parsed.bits])

\* Lines 133-219, for a file that can be opened.
read_procfs_cap_bits(content) ==
  read_cap_lines(content, FALSE, {}, ZeroCapBits)

\* The characters of a __u64 printed with %016llx.
Hex16(bits) == [i \in 1..16 |-> LowerHex[bits[i] + 1]]

\* Some capability sets: none; CAP_CHOWN..CAP_SETPCAP (0..8); 0..40.
CapsLow == [i \in 1..16 |-> IF i = 14 THEN 1 ELSE IF i > 14 THEN 15 ELSE 0]
CapsAll == [i \in 1..16 |-> IF i < 6 THEN 0 ELSE IF i = 6 THEN 1 ELSE 15]

NewLine == <<"\n">>

\* One line of a status file.
StatusLine(class, text) == CapClasses[class].pref \o text \o NewLine

\* The first lines of /proc/PID/status, and a Groups line of 88 characters,
\* which fgets returns in two pieces; its second piece is the text of a
\* CapInh line.
NameLines == <<"N", "a", "m", "e", ":", "\t", "s", "h">> \o NewLine
LongLine ==
  <<"G", "r", "o", "u", "p", "s", ":">> \o [i \in 1..56 |-> " "]
    \o CapClasses[1].pref \o Hex16(CapsAll) \o NewLine

\* /proc/PID/status of a process with the given sets, as the kernel
\* prints it.
ProcStatus(caps) ==
  NameLines
    \o StatusLine(1, Hex16(caps.inheritable))
    \o StatusLine(2, Hex16(caps.permitted))
    \o StatusLine(3, Hex16(caps.effective))
    \o StatusLine(4, Hex16(caps.bounding_set))
    \o StatusLine(5, Hex16(caps.ambient))

\* The capability sets of a process: those of an unprivileged one, those of
\* a root process, and one with an ambient capability.
NoCaps ==
  [inheritable |-> U64Zero, permitted |-> U64Zero, effective |-> U64Zero,
   bounding_set |-> CapsAll, ambient |-> U64Zero]
RootCaps ==
  [inheritable |-> U64Zero, permitted |-> CapsAll, effective |-> CapsAll,
   bounding_set |-> CapsAll, ambient |-> U64Zero]
LowCaps ==
  [inheritable |-> CapsLow, permitted |-> CapsLow, effective |-> CapsLow,
   bounding_set |-> CapsLow, ambient |-> CapsLow]

\* The same status with the five lines in another order, upper-case
\* digits and the long line in front.
Reordered(caps) ==
  LongLine
    \o StatusLine(5, Hex16(caps.ambient))
    \o StatusLine(4, [i \in 1..16 |-> UpperHex[caps.bounding_set[i] + 1]])
    \o StatusLine(1, Hex16(caps.inheritable))
    \o NameLines
    \o StatusLine(3, Hex16(caps.effective))
    \o StatusLine(2, Hex16(caps.permitted))

\* The target files of the examples: three statuses as the kernel prints
\* them and one reordered; one without CapAmb; one with CapInh twice; values
\* of 15 and of 17 digits; a value with a letter that is no digit; a last
\* line without newline; a 0x in front of 14 digits; a blank in front of 15
\* digits; a minus sign in front of 15 digits; a Cap text that is not at the
\* start of its line; an empty file.
StatusFiles ==
  { ProcStatus(NoCaps), ProcStatus(RootCaps), ProcStatus(LowCaps),
    Reordered(RootCaps),
    SubSeq(ProcStatus(RootCaps), 1, Len(ProcStatus(RootCaps)) - 25),
    ProcStatus(RootCaps) \o StatusLine(1, Hex16(U64Zero)),
    NameLines \o StatusLine(1, SubSeq(Hex16(U64Zero), 1, 15))
      \o SubSeq(ProcStatus(NoCaps), 35, Len(ProcStatus(NoCaps))),
    NameLines \o StatusLine(1, <<"0">> \o Hex16(U64Zero))
      \o SubSeq(ProcStatus(NoCaps), 35, Len(ProcStatus(NoCaps))),
    NameLines \o StatusLine(1, SubSeq(Hex16(U64Zero), 1, 15) \o <<"g">>)
      \o SubSeq(ProcStatus(NoCaps), 35, Len(ProcStatus(NoCaps))),
    SubSeq(ProcStatus(NoCaps), 1, Len(ProcStatus(NoCaps)) - 1),
    NameLines \o StatusLine(1, <<"0", "x">> \o SubSeq(Hex16(U64Zero), 1, 14))
      \o SubSeq(ProcStatus(NoCaps), 35, Len(ProcStatus(NoCaps))),
    NameLines \o StatusLine(1, <<" ">> \o SubSeq(Hex16(U64Zero), 1, 15))
      \o SubSeq(ProcStatus(NoCaps), 35, Len(ProcStatus(NoCaps))),
    NameLines \o StatusLine(1, <<"-">> \o SubSeq(Hex16(U64Zero), 1, 14) \o <<"1">>)
      \o SubSeq(ProcStatus(NoCaps), 35, Len(ProcStatus(NoCaps))),
    <<"x">> \o StatusLine(1, Hex16(CapsLow)) \o ProcStatus(LowCaps),
    <<>> }

\* The argument vectors of the examples: a command with two arguments, a
\* command alone, nothing after "--", no "--", no argument at all.
ArgVectors ==
  { <<"clonecaps", "/proc/1/status", "--", "/bin/sh", "-c", "id">>,
    <<"clonecaps", "/proc/1/status", "--", "/bin/true">>,
    <<"clonecaps", "/proc/1/status", "--">>,
    <<"clonecaps", "/proc/1/status", "/bin/sh">>,
    <<"clonecaps">> }

\* What find_last_cap (lines 52-67) returns: -1, or the number in
\* /proc/sys/kernel/cap_last_cap.
LastCaps == {-1, 8, 40}

NotExeced == [path |-> "", argv |-> <<>>]

CapsInit ==
  /\ argv \in ArgVectors
  /\ targetFile \in StatusFiles
  /\ debugEnv \in BOOLEAN
  /\ ambientBuild \in BOOLEAN
  /\ capLastCap \in LastCaps
  /\ kernelCaps \in {RootCaps, LowCaps}
  /\ libCaps = ZeroCapBits
  /\ pcM = "args"
  /\ last_cap = -1
  /\ target_bits = ZeroCapBits
  /\ final_bits = ZeroCapBits
  /\ faultM = "none"
  /\ exitM = 0
  /\ execM = NotExeced

\* return 1 from main after the step named kind failed.
MainFails(kind) ==
  /\ pcM' = "exited"
  /\ exitM' = 1
  /\ faultM' = kind

\* Lines 243-249: the usage test.
M_args ==
  /\ pcM = "args"
  /\ IF Len(argv) < 3 \/ argv[3] # "--"
       THEN MainFails("usage")
       ELSE pcM' = "last_cap" /\ UNCHANGED <<exitM, faultM>>
  /\ UNCHANGED <<unshareVars, renameVars, argv, targetFile, debugEnv,
                 ambientBuild, capLastCap, kernelCaps, libCaps, last_cap,
                 target_bits, final_bits, execM>>

\* Lines 252-267: last_cap = find_last_cap(); the path of the own status
\* file always fits its buffer.
M_last_cap ==
  /\ pcM = "last_cap"
  /\ last_cap' = capLastCap
  /\ IF capLastCap = -1
       THEN MainFails("last_cap")
       ELSE /\ pcM' = IF debugEnv THEN "initial" ELSE "target"
            /\ UNCHANGED <<exitM, faultM>>
  /\ UNCHANGED <<unshareVars, renameVars, argv, targetFile, debugEnv,
                 ambientBuild, capLastCap, kernelCaps, libCaps, target_bits,
                 final_bits, execM>>

\* Lines 269-275: with ANTLIR_DEBUG, read and print the own status first.
M_initial ==
  /\ pcM = "initial"
  /\ IF ~read_procfs_cap_bits(ProcStatus(kernelCaps)).ok
       THEN MainFails("parse")
       ELSE pcM' = "target" /\ UNCHANGED <<exitM, faultM>>
  /\ UNCHANGED <<unshareVars, renameVars, argv, targetFile, debugEnv,
                 ambientBuild, capLastCap, kernelCaps, libCaps, last_cap,
                 target_bits, final_bits, execM>>

\* Lines 277-283: read_procfs_cap_bits(target_procfs_path, &target_bits).
M_target ==
  /\ pcM = "target"
  /\ LET r == read_procfs_cap_bits(targetFile)
     IN  /\ target_bits' = r.cap_bits
         /\ IF ~r.ok
              THEN MainFails("parse")
              ELSE pcM' = "clone" /\ UNCHANGED <<exitM, faultM>>
  /\ UNCHANGED <<unshareVars, renameVars, argv, targetFile, debugEnv,
                 ambientBuild, capLastCap, kernelCaps, libCaps, last_cap,
                 final_bits, execM>>

\* The fields add_all_caps and check_all_caps are called for (lines
\* 288-294, 318-324): ambient only with CAPNG_SUPPORTS_AMBIENT.
ClonedFields ==
  {"inheritable", "permitted", "effective", "bounding_set"}
    \cup (IF ambientBuild THEN {"ambient"} ELSE {})

\* Lines 285-297: capng_clear, then add_all_caps (lines 70-84) for each
\* field: every capability up to last_cap that is in the target's set is
\* added; a capng_update that fails ends main.
M_clone ==
  /\ pcM = "clone"
  /\ \/ /\ libCaps' = [f \in DOMAIN ZeroCapBits |->
                        IF f \in ClonedFields THEN UpTo(target_bits[f], last_cap)
                                              ELSE U64Zero]
        /\ pcM' = "apply"
        /\ UNCHANGED <<exitM, faultM>>
     \/ /\ \E f \in ClonedFields : UpTo(target_bits[f], last_cap) # U64Zero
        /\ libCaps' = ZeroCapBits
        /\ MainFails("add")
  /\ UNCHANGED <<unshareVars, renameVars, argv, targetFile, debugEnv,
                 ambientBuild, capLastCap, kernelCaps, last_cap, target_bits,
                 final_bits, execM>>

\* Lines 299-316: capng_apply(CAPNG_SELECT_ALL), twice with
\* CAPNG_SUPPORTS_AMBIENT.  When it reports success the kernel's sets are
\* the library's, the ambient set only if the library handles it; or the
\* bounding set was not changed.
M_apply ==
  /\ pcM = "apply"
  /\ \/ /\ \E boundingKept \in BOOLEAN :
             kernelCaps' =
               [inheritable |-> libCaps.inheritable,
                permitted |-> libCaps.permitted,
                effective |-> libCaps.effective,
                bounding_set |-> IF boundingKept THEN kernelCaps.bounding_set
                                 ELSE libCaps.bounding_set,
                ambient |-> IF ambientBuild THEN libCaps.ambient
                            ELSE kernelCaps.ambient]
        /\ pcM' = "check"
        /\ UNCHANGED <<exitM, faultM>>
     \/ /\ MainFails("apply")
        /\ UNCHANGED kernelCaps
  /\ UNCHANGED <<unshareVars, renameVars, argv, targetFile, debugEnv,
                 ambientBuild, capLastCap, libCaps, last_cap, target_bits,
                 final_bits, execM>>

\* Lines 318-327: check_all_caps (lines 91-106) for each field compares
\* what the library holds up to last_cap with the whole target value.
M_check ==
  /\ pcM = "check"
  /\ IF \E f \in ClonedFields : UpTo(libCaps[f], last_cap) # target_bits[f]
       THEN MainFails("check")
       ELSE pcM' = "final" /\ UNCHANGED <<exitM, faultM>>
  /\ UNCHANGED <<unshareVars, renameVars, argv, targetFile, debugEnv,
                 ambientBuild, capLastCap, kernelCaps, libCaps, last_cap,
                 target_bits, final_bits, execM>>

\* Lines 329-332: read_procfs_cap_bits(my_procfs_path, &final_bits); the
\* kernel prints the sets the process has now.
M_final ==
  /\ pcM = "final"
  /\ LET r == read_procfs_cap_bits(ProcStatus(kernelCaps))
     IN  /\ final_bits' = r.cap_bits
         /\ IF ~r.ok
              THEN MainFails("parse")
              ELSE pcM' = "exec" /\ UNCHANGED <<exitM, faultM>>
  /\ UNCHANGED <<unshareVars, renameVars, argv, targetFile, debugEnv,
                 ambientBuild, capLastCap, kernelCaps, libCaps, last_cap,
                 target_bits, execM>>

\* The execv of line 351 and its failure (lines 352-353); argv was moved
\* past the three own arguments at line 248, and execv of a null path
\* fails.
Execv ==
  \/ /\ Len(argv) >= 4
     /\ execM' = [path |-> argv[4], argv |-> SubSeq(argv, 4, Len(argv))]
     /\ pcM' = "execd"
     /\ UNCHANGED <<exitM, faultM>>
  \/ /\ MainFails("execv")
     /\ UNCHANGED execM

M_exec_without_comparison ==
  /\ pcM = "exec"
  /\ Execv
  /\ UNCHANGED <<unshareVars, renameVars, argv, targetFile, debugEnv,
                 ambientBuild, capLastCap, kernelCaps, libCaps, last_cap,
                 target_bits, final_bits>>

\* Lines 339-353: the comparison of the five fields, then execv.
M_exec ==
  /\ pcM = "exec"
  /\ IF \E f \in DOMAIN ZeroCapBits : final_bits[f] # target_bits[f]
       THEN MainFails("mismatch") /\ UNCHANGED execM
       ELSE Execv
  /\ UNCHANGED <<unshareVars, renameVars, argv, targetFile, debugEnv,
                 ambientBuild, capLastCap, kernelCaps, libCaps, last_cap,
                 target_bits, final_bits>>

CapsNext ==
  \/ M_args
  \/ M_last_cap
  \/ M_initial
  \/ M_target
  \/ M_clone
  \/ M_apply
  \/ M_check
  \/ M_final
  \/ M_exec

----------------------------------------------------------------------------

Next ==
  \/ Orchestrator
  \/ \E c \in Calls : Delegate(c)
  \/ \E c \in Calls : SubDelegate(c)

\* unshare_userns is not called.
UnshareNotCalled == UnshareInit /\ inp.pid_str = "77"

\* The rename library is not loaded.
RenameNotLoaded ==
  /\ RenameInit
  /\ g_shadowed_paths_root = NULL
  /\ renameArgs = [old |-> P_d_g, new |-> P_d_f]

\* clonecaps before it is started, with one of the inputs.
CapsNotRun ==
  /\ CapsInit
  /\ argv = <<"clonecaps">>
  /\ targetFile = <<>>
  /\ ~debugEnv
  /\ ~ambientBuild
  /\ capLastCap = 40
  /\ kernelCaps = RootCaps

Init == UnshareInit /\ RenameNotLoaded /\ CapsNotRun

Spec == Init /\ [][Next]_vars

\* The threads of a process that has the rename library preloaded.
RenameStart == UnshareNotCalled /\ CapsNotRun /\ RenameInit

RenameSpec == RenameStart /\ [][RenameNext]_vars

\* One run of clonecaps.
CapsStart == UnshareNotCalled /\ RenameNotLoaded /\ CapsInit

CapsSpec == CapsStart /\ [][CapsNext]_vars

\* The scheduler runs every process that can take a step; whether the
\* caller calls again is up to the caller.
FairSpec ==
  /\ Spec
  /\ WF_vars(O_pipe \/ O_fork \/ O_close1 \/ O_unshare \/ O_close2 \/ O_waitpid)
  /\ \A c \in Calls : WF_vars(Delegate(c))
  /\ \A c \in Calls : WF_vars(SubDelegate(c))

TypeOK ==
  /\ inp \in Inputs
  /\ call \in 0..MaxCalls
  /\ pcO \in {"idle", "pipe", "fork", "close1", "unshare", "close2",
              "waitpid", "returned", "exited"}
  /\ ret \in Int
  /\ \A c \in Calls :
       /\ pcD[c] \in {"none", "close_w", "read", "close_r", "fork2", "wait2",
                      "exec_uid", "uid_helper", "zombie", "gone"}
       /\ pcS[c] \in {"none", "exec_gid", "gid_helper", "zombie", "gone"}
       /\ holders[c] \subseteq ({"O", "D", "S"} \X {ReadEnd, WriteEnd})
       /\ unshareRet[c] \in {"none", "ok", "fail"}
  /\ ns \in 0..MaxCalls
  /\ closes \in [Calls -> [{"O", "D"} \X {ReadEnd, WriteEnd} -> 0..2]]

----------------------------------------------------------------------------
(* Properties.                                                             *)

\* The Delegate of call c has returned from its read().
PastRead(c) ==
  \/ pcD[c] \in {"close_r", "fork2", "wait2", "exec_uid", "uid_helper"}
  \/ pcS[c] # "none"

\* A helper of call c has been exec'd.
HelperExeced(c) == gidArgs[c] # <<>> \/ uidArgs[c] # <<>>

\* unshare_userns has returned to the caller.
Returned == pcO = "returned" /\ call >= 1

\* C1: the Delegate's read returns only after the Orchestrator's
\* unshare(CLONE_NEWUSER) has returned, so neither newgidmap nor newuidmap
\* is exec'd before unshare has returned.
C1_ReadOnlyAfterUnshare ==
  \A c \in Calls :
    (PastRead(c) \/ HelperExeced(c)) => unshareRet[c] # "none"

\* C2: once the Delegate is forked, the Orchestrator no longer holds the
\* write end only if unshare has already been issued.
C2_WriteEndClosedAfterUnshare ==
  \A c \in Calls :
    (pcD[c] # "none" /\ <<"O", WriteEnd>> \notin holders[c])
      => unshareRet[c] # "none"

\* C3: whenever unshare_userns has returned, no Delegate and no
\* Sub-delegate of this or of an earlier call is running or is a zombie.
C3_NoChildLeftOnReturn ==
  Returned =>
    \A c \in Calls : pcD[c] \in {"none", "gone"} /\ pcS[c] \in {"none", "gone"}

\* The map a successful helper run leaves for (root, sub_start, len).
ExpectedMap(root, sub_start, len) ==
  << <<"0", root, "1">>, <<"1", sub_start, len>> >>

\* C4: whenever unshare_userns returns 0, unshare succeeded, both helpers
\* ran against the target pid and exited 0, and the namespace the caller is
\* in maps id 0 to outside_root (length 1) and id 1 to the sub-range, for
\* UID and for GID.
C4_SuccessMapsNamespace ==
  (Returned /\ ret = 0) =>
    /\ unshareRet[call] = "ok"
    /\ gidArgs[call] # <<>> /\ gidArgs[call][2] = inp.pid_str
    /\ uidArgs[call] # <<>> /\ uidArgs[call][2] = inp.pid_str
    /\ stS[call] = 0 /\ stD[call] = 0
    /\ maps[ns].uid = ExpectedMap(inp.uid_map_outside_root,
                                  inp.uid_map_outside_sub_start,
                                  inp.uid_map_len)
    /\ maps[ns].gid = ExpectedMap(inp.gid_map_outside_root,
                                  inp.gid_map_outside_sub_start,
                                  inp.gid_map_len)

\* C5: whenever unshare_userns returns 0, the Delegate and the
\* Sub-delegate of that call no longer exist: both have been reaped.
C5_NoChildOnSuccess ==
  (Returned /\ ret = 0) => (pcD[call] = "gone" /\ pcS[call] = "gone")

C5_Witness == Returned /\ ret = 0 /\ pcD[call] = "gone" /\ pcS[call] = "gone"

\* C6: newuidmap is exec'd only after newgidmap was exec'd, exited with
\* status 0 and was reaped by the Delegate; the two helpers never run at
\* the same time.
C6_UidAfterGidReaped ==
  \A c \in Calls :
    /\ (pcD[c] \in {"exec_uid", "uid_helper"} \/ uidArgs[c] # <<>>)
         => (pcS[c] = "gone" /\ stS[c] = 0 /\ gidArgs[c] # <<>>)
    /\ ~(pcS[c] = "gid_helper" /\ pcD[c] = "uid_helper")

C6_Witness ==
  \E c \in Calls : pcD[c] = "uid_helper" /\ pcS[c] = "gone" /\ stS[c] = 0

\* C7: under fair scheduling a Delegate blocked in read() always gets past
\* it, whether unshare succeeds or fails.
C7_ReadEventuallyReturns ==
  \A c \in Calls : (pcD[c] = "read") ~> (pcD[c] # "read")

C7_Witness ==
  \E c \in Calls : pcD[c] = "close_r" /\ unshareRet[c] = "fail"

\* C8: no byte is ever in the pipe, and the Delegate is past its read (has
\* forked or exec'd anything) only if no process holds the write end.
C8_BlockedWhileWriteEndOpen ==
  \A c \in Calls :
    /\ pipeBytes[c] = 0
    /\ (PastRead(c) \/ HelperExeced(c)) => WriteEndClosed(c)

C8_Witness ==
  \E c \in Calls : pcD[c] = "read" /\ <<"O", WriteEnd>> \in holders[c]

\* C9: the arguments after the program name are exactly
\* [pid_str, "0", uid root, "1", "1", uid sub start, uid len] for newuidmap
\* and the same with the gid values for newgidmap.
C9_ArgVectors ==
  \A c \in Calls :
    /\ uidArgs[c] # <<>> =>
         /\ Head(uidArgs[c]) = "newuidmap"
         /\ Tail(uidArgs[c]) =
              <<inp.pid_str, "0", inp.uid_map_outside_root, "1", "1",
                inp.uid_map_outside_sub_start, inp.uid_map_len>>
    /\ gidArgs[c] # <<>> =>
         /\ Head(gidArgs[c]) = "newgidmap"
         /\ Tail(gidArgs[c]) =
              <<inp.pid_str, "0", inp.gid_map_outside_root, "1", "1",
                inp.gid_map_outside_sub_start, inp.gid_map_len>>

C9_Witness ==
  \E c \in Calls :
    /\ uidArgs[c] # <<>> /\ gidArgs[c] # <<>>
    /\ inp.uid_map_outside_root # inp.gid_map_outside_root
    /\ inp.uid_map_outside_sub_start # inp.gid_map_outside_sub_start
    /\ inp.uid_map_len # inp.gid_map_len

\* C10 as claimed: a failure result is -1 exactly when it occurred before
\* the caller's namespace changed, so the two classes never share a value.
C10_FailureClassesDistinct ==
  (Returned /\ ret # 0) => ((unshareRet[call] # "ok") <=> (ret = -1))

\* C10 as amended: every failure before the namespace changed returns -1,
\* and every failure taken from the reaped Delegate's status returns that
\* raw status, which is never -1.
C10_MappingFailureDistinct ==
  (Returned /\ ret # 0) =>
    /\ unshareRet[call] # "ok" => ret = -1
    /\ pcD[call] = "gone" => (ret # -1 /\ ret = stD[call])

C10_Witness ==
  Returned /\ ret # 0 /\ pcD[call] = "gone" /\ unshareRet[call] = "ok"

\* The Orchestrator returned the status of the Delegate it reaped.
ReapedFailure == Returned /\ pcD[call] = "gone" /\ ret # 0

\* newgidmap of call c was reaped by the Delegate and had failed.
GidFailed(c) == pcS[c] = "gone" /\ ~Child2Ok(stS[c])

\* C11 as claimed: a mapping failure tells the role: the result of a
\* newuidmap that exits with status 1 is that status, and a failure of
\* newgidmap gives a different result.
C11_RoleRecoverable ==
  ReapedFailure =>
    /\ (uidArgs[call] # <<>> /\ stD[call] = ExitedWith(1))
         => ret = ExitedWith(1)
    /\ GidFailed(call) => ret # ExitedWith(1)

\* C11 as amended: a failure of newuidmap returns newuidmap's raw wait
\* status; a failure of newgidmap, whatever its exit code or signal,
\* returns the wait status of exit(EXIT_FAILURE), the value also returned
\* when newuidmap exits with status 1.
C11_UidRawGidCollapsed ==
  ReapedFailure =>
    /\ uidArgs[call] # <<>> => (ret = stD[call] /\ ret \in HelperOutcomes)
    /\ GidFailed(call) => ret = ExitedWith(EXIT_FAILURE)

C11_Witness ==
  /\ ReapedFailure
  /\ GidFailed(call)
  /\ stS[call] = KilledBy(9)
  /\ ret = ExitedWith(1)

\* C12: once the Orchestrator has reaped the Delegate it returns 0 if and
\* only if the Delegate, running as newuidmap, exited normally with code 0;
\* a non-zero exit code or a death by signal gives a non-zero result.
C12_ZeroIffDelegateExitedZero ==
  (Returned /\ pcD[call] = "gone") =>
    /\ ret = 0 <=> (WIFEXITED(stD[call]) /\ WEXITSTATUS(stD[call]) = 0)
    /\ ret = 0 <=> stD[call] = 0
    /\ ret = 0 => uidArgs[call] # <<>>

C12_Witness ==
  Returned /\ pcD[call] = "gone" /\ stD[call] = KilledBy(9) /\ ret # 0

\* C13: if newgidmap's process did not exit normally with status 0, the
\* Delegate never execs newuidmap, it has exited with failure once it has
\* reaped the Sub-delegate, and a result the Orchestrator returns is
\* non-zero.
C13_GidFailureStopsDelegate ==
  \A c \in Calls :
    (pcS[c] \in {"zombie", "gone"} /\ ~Child2Ok(stS[c])) =>
      /\ uidArgs[c] = <<>>
      /\ pcD[c] \notin {"exec_uid", "uid_helper"}
      /\ pcS[c] = "gone" =>
           (pcD[c] \in {"zombie", "gone"} /\ ~Child2Ok(stD[c]))
      /\ (Returned /\ c = call) => ret # 0

C13_Witness ==
  Returned /\ GidFailed(call) /\ pcD[call] = "gone" /\ ret # 0

\* C14: when pipe() fails unshare_userns returns failure and nothing has
\* happened: no process was forked, unshare was not issued, no helper ran
\* and no descriptor of the pipe is open.
C14_PipeFailureNoSideEffect ==
  (Returned /\ fault.O = "pipe") =>
    /\ ret = -1
    /\ pcD[call] = "none" /\ pcS[call] = "none"
    /\ unshareRet[call] = "none" /\ ns # call
    /\ ~HelperExeced(call)
    /\ holders[call] = {}

C14_Witness == Returned /\ fault.O = "pipe" /\ ret = -1

\* C15: when fork() of the Delegate fails the Orchestrator has closed both
\* ends of the pipe and returns failure without issuing unshare: the
\* caller's namespace is the one it was in and no descriptor is open.
C15_ForkFailureClosesBoth ==
  (Returned /\ fault.O = "fork") =>
    /\ ret = -1
    /\ holders[call] = {}
    /\ unshareRet[call] = "none" /\ ns # call
    /\ pcD[call] = "none"

C15_Witness == Returned /\ fault.O = "fork" /\ holders[call] = {}

\* C16 as claimed: when the Delegate's fork() fails it has terminated with
\* a status no other failure of the Delegate produces (the others exit
\* with EXIT_FAILURE), no helper was exec'd, and when unshare_userns has
\* returned the Delegate was reaped and the result is a failure.
C16_ForkFailureDistinguished ==
  \A c \in Calls :
    fault.D[c] = "fork" =>
      /\ pcD[c] \in {"zombie", "gone"}
      /\ stD[c] # ExitedWith(EXIT_FAILURE)
      /\ pcS[c] = "none" /\ ~HelperExeced(c)
      /\ (Returned /\ c = call) => (pcD[c] = "gone" /\ ret # 0)

\* C16 as amended: when the Delegate's fork() fails it has terminated with
\* EXIT_FAILURE, the status of every other failure of the Delegate, no
\* helper was exec'd, and a result unshare_userns returns is non-zero: the
\* Delegate's status when no call of the Orchestrator failed, which is
\* when the Delegate was reaped, and -1 otherwise.
C16_ForkFailureExits ==
  \A c \in Calls :
    fault.D[c] = "fork" =>
      /\ pcD[c] \in {"zombie", "gone"}
      /\ stD[c] = ExitedWith(EXIT_FAILURE)
      /\ pcS[c] = "none" /\ ~HelperExeced(c)
      /\ (Returned /\ c = call) =>
           /\ ret # 0
           /\ pcD[c] = "gone" <=> fault.O = "none"
           /\ ret = IF fault.O = "none" THEN ExitedWith(EXIT_FAILURE) ELSE -1

C16_Witness ==
  \E c \in Calls : fault.D[c] = "fork" /\ pcD[c] = "gone" /\ Returned

\* The lines perror wrote for call c.
Reported(c) == {stderr[c][i] : i \in 1..Len(stderr[c])}

\* C17: a process whose execv of a helper failed has reported it on
\* standard error and has terminated with the wait status of a helper that
\* exits 1; after a failed execv of newgidmap newuidmap is never exec'd;
\* and in both roles a result the Orchestrator returns is non-zero.
C17_ExecFailureIsHelperFailure ==
  \A c \in Calls :
    /\ fault.S[c] = "execv" =>
         /\ "exec newgidmap" \in Reported(c)
         /\ pcS[c] \in {"zombie", "gone"}
         /\ stS[c] = ExitedWith(EXIT_FAILURE)
         /\ stS[c] \in HelperOutcomes /\ ~Child2Ok(stS[c])
         /\ uidArgs[c] = <<>> /\ pcD[c] \notin {"exec_uid", "uid_helper"}
    /\ fault.D[c] = "execv" =>
         /\ "exec newuidmap" \in Reported(c)
         /\ pcD[c] \in {"zombie", "gone"}
         /\ stD[c] = ExitedWith(EXIT_FAILURE)
         /\ stD[c] \in HelperOutcomes /\ ReturnOf(stD[c]) # 0
    /\ ((fault.S[c] = "execv" \/ fault.D[c] = "execv")
          /\ Returned /\ c = call) => ret # 0

C17_Witness ==
  \E c \in Calls :
    fault.S[c] = "execv" /\ Returned /\ pcD[c] = "gone" /\ ret # 0

\* A step taken by the Delegate or the Sub-delegate of call c (forking the
\* Delegate and reaping it are steps of the Orchestrator).
ChildStep(c) ==
  \/ pcD[c] \notin {"none", "zombie", "gone"} /\ pcD'[c] # pcD[c]
  \/ pcS[c] \notin {"none", "zombie", "gone"} /\ pcS'[c] # pcS[c]

\* C18: neither child returns into the caller's control flow.  The Delegate
\* is only ever at a statement of its case 0 branch, running newuidmap, or
\* terminated; the Sub-delegate is only ever at its execv, running
\* newgidmap, or terminated (never at a wait, a fork or the newuidmap
\* exec); and no step of a child moves the caller or sets its result.
C18_ChildrenNeverReturn ==
  /\ [](\A c \in Calls :
         /\ pcD[c] \in {"none", "close_w", "read", "close_r", "fork2",
                        "wait2", "exec_uid", "uid_helper", "zombie", "gone"}
         /\ pcS[c] \in {"none", "exec_gid", "gid_helper", "zombie", "gone"}
         /\ pcS[c] = "gid_helper" => Head(gidArgs[c]) = "newgidmap"
         /\ pcD[c] = "uid_helper" => Head(uidArgs[c]) = "newuidmap")
  /\ [][\A c \in Calls : ChildStep(c) => UNCHANGED <<pcO, ret, call>>]_vars

C18_Witness ==
  \E c \in Calls :
    fault.S[c] = "execv" /\ pcS[c] = "zombie" /\ pcD[c] = "wait2"

\* The descriptors of pipe c that process p holds.
HeldBy(c, p) == {d \in holders[c] : d[1] = p}

\* C19: whatever its read returned, the Delegate goes on to close the read
\* end, and it has closed it before it forks, so that no process that
\* execs a helper holds an end of the pipe.
C19_NoPipeEndAtExec ==
  /\ [](\A c \in Calls :
         /\ pcD[c] \in {"fork2", "wait2", "exec_uid", "uid_helper"}
              => HeldBy(c, "D") = {}
         /\ pcS[c] # "none" => HeldBy(c, "S") = {})
  /\ [][\A c \in Calls :
          (pcD[c] = "read" /\ pcD'[c] # "read") => pcD'[c] = "close_r"]_vars

C19_Witness ==
  \E c \in Calls :
    pcS[c] = "gid_helper" /\ HeldBy(c, "S") = {} /\ HeldBy(c, "D") = {}

\* C20: every child is reaped by its parent: once the Delegate runs
\* newuidmap or has terminated, a Sub-delegate it forked has been reaped,
\* and once unshare_userns has returned, a Delegate it forked has been
\* reaped; a child is reaped only by a parent that is in its waitpid, and
\* a reaped child is never reaped again.
C20_EachChildReapedByParent ==
  \A c \in Calls :
    /\ (pcS[c] # "none" /\ pcD[c] \in {"uid_helper", "zombie", "gone"})
         => pcS[c] = "gone"
    /\ (Returned /\ c = call /\ pcD[c] # "none") => pcD[c] = "gone"
    /\ pcS[c] = "gone" => pcD[c] \notin {"none", "close_w", "read", "close_r", "fork2"}
    /\ pcD[c] = "gone" => c <= call

\* unshare_userns has been entered and has neither returned nor ended the
\* process.
InCall == pcO \in {"pipe", "fork", "close1", "unshare", "close2", "waitpid"}

\* The Delegate / the Sub-delegate of call c was forked and has not
\* terminated.
DelegateRunning(c) == pcD[c] \notin {"none", "zombie", "gone"}
SubDelegateRunning(c) == pcS[c] \notin {"none", "zombie", "gone"}

\* C21: with helpers that terminate and a fair scheduler every call
\* terminates.  No process waits for something that cannot happen: a
\* write end still open while the Delegate reads is the parent's, which is
\* about to close it; a Delegate in waitpid has a Sub-delegate that is not
\* yet reaped; an Orchestrator in waitpid has a Delegate that is not yet
\* reaped.  And the Orchestrator eventually returns or ends, and each child
\* eventually terminates.
C21_EveryCallTerminates ==
  /\ [](\A c \in Calls :
         /\ pcD[c] = "read" =>
              \A d \in holders[c] :
                d[2] = WriteEnd => (d = <<"O", WriteEnd>> /\ c = call /\ pcO = "close1")
         /\ pcD[c] = "wait2" => pcS[c] \in {"exec_gid", "gid_helper", "zombie"}
         /\ (pcO = "waitpid" /\ c = call) => pcD[c] \notin {"none", "gone"})
  /\ InCall ~> (pcO \in {"returned", "exited"})
  /\ \A c \in Calls : DelegateRunning(c) ~> ~DelegateRunning(c)
  /\ \A c \in Calls : SubDelegateRunning(c) ~> ~SubDelegateRunning(c)

C21_Witness ==
  /\ Returned /\ fault.O = "none"
  /\ pcD[call] = "gone" /\ pcS[call] = "gone"
  /\ uidArgs[call] # <<>> /\ ret # 0

\* newuidmap of call c was exec'd and failed.
UidFailed(c) ==
  uidArgs[c] # <<>> /\ pcD[c] \in {"zombie", "gone"} /\ stD[c] # 0

\* C22: nothing is rolled back.  Once unshare of the current call has
\* succeeded the caller is in the new namespace in every later state, and
\* the namespace it is in is never an earlier one again; when newuidmap
\* failed (which is after newgidmap succeeded) the GID mapping newgidmap
\* wrote is still in place; no step changes a GID map that was written,
\* and newgidmap is not exec'd a second time.
C22_NoRollback ==
  /\ []((call >= 1 /\ unshareRet[call] = "ok") => ns = call)
  /\ [](\A c \in Calls :
         UidFailed(c) =>
           /\ stS[c] = 0 /\ gidArgs[c] # <<>>
           /\ \E n \in 0..MaxCalls : maps[n].gid = Triples(gidArgs[c]))
  /\ [][/\ ns' >= ns
        /\ \A n \in 0..MaxCalls :
             maps[n].gid = Triples(GidArgs(inp)) => maps'[n].gid = maps[n].gid
        /\ \A c \in Calls :
             gidArgs[c] # <<>> =>
               (gidArgs'[c] = gidArgs[c] /\ pcS'[c] # "exec_gid")]_vars

C22_Witness ==
  /\ Returned /\ unshareRet[call] = "ok" /\ ns = call
  /\ UidFailed(call) /\ ret = stD[call]
  /\ maps[ns].gid = Triples(gidArgs[call])
  /\ maps[ns].uid = <<>>

\* C23: the pipe of a call lives for that call only.  Whenever
\* unshare_userns has returned, the calling process holds neither end of
\* the pipe of that call (nor of an earlier one); the Orchestrator and the
\* Delegate have each issued close at most once on each descriptor; the
\* Delegate closes its read end and the Orchestrator its write end exactly
\* once when they got that far; and a pipe that was created has been closed
\* by the caller once on each end.
C23_PipeClosedOncePerEnd ==
  /\ \A c \in Calls :
       /\ \A d \in {"O", "D"} \X {ReadEnd, WriteEnd} : closes[c][d] <= 1
       /\ \A p \in {"O", "D"}, fd \in {ReadEnd, WriteEnd} :
            closes[c][<<p, fd>>] = 1 => <<p, fd>> \notin holders[c]
       /\ pcD[c] \in {"fork2", "wait2", "exec_uid", "uid_helper"}
            => closes[c][<<"D", ReadEnd>>] = 1
  /\ Returned =>
       /\ \A c \in Calls : HeldBy(c, "O") = {}
       /\ fault.O # "pipe" =>
            \A fd \in {ReadEnd, WriteEnd} : closes[call][<<"O", fd>>] = 1

C23_Witness ==
  /\ Returned /\ fault.O = "unshare"
  /\ HeldBy(call, "O") = {}
  /\ closes[call][<<"O", ReadEnd>>] = 1 /\ closes[call][<<"O", WriteEnd>>] = 1

\* The operations that are not async-signal-safe which the Delegate of call
\* c performed after its fork: perror (stdio) at line 146, and exit, which
\* runs the atexit handlers and flushes the stdio buffers copied from the
\* parent, whenever it terminated without having exec'd newuidmap.
UnsafeOpsD(c) ==
  (IF "exec newuidmap" \in Reported(c) THEN {"perror"} ELSE {})
    \cup (IF pcD[c] \in {"zombie", "gone"} /\ uidArgs[c] = <<>>
            THEN {"exit"} ELSE {})

\* The same for the Sub-delegate: perror at line 117, exit at line 118.
UnsafeOpsS(c) ==
  (IF "exec newgidmap" \in Reported(c) THEN {"perror"} ELSE {})
    \cup (IF pcS[c] \in {"zombie", "gone"} /\ gidArgs[c] = <<>>
            THEN {"exit"} ELSE {})

\* C24: between its fork and its exec or termination neither child
\* performs an operation that allocates or is not async-signal-safe (stdio
\* output and exit count as unsafe), and the argument vectors the helpers
\* get consist of the caller's strings and literals only.
C24_ChildrenAsyncSignalSafe ==
  \A c \in Calls :
    /\ UnsafeOpsD(c) = {}
    /\ UnsafeOpsS(c) = {}
    /\ uidArgs[c] # <<>> => uidArgs[c] = UidArgs(inp)
    /\ gidArgs[c] # <<>> => gidArgs[c] = GidArgs(inp)

\* C27 as claimed: every path of unshare_userns in the calling process
\* ends in a return; the calling process is never terminated by the
\* function, not even when waitpid on the Delegate fails.
C27_OrchestratorAlwaysReturns ==
  /\ pcO # "exited"
  /\ fault.O = "waitpid" => Returned

\* C28: the Delegate has closed its own copy of the write end before it
\* reads: while it is in read (and ever after) it does not hold the write
\* end.  If that close failed the Delegate has terminated with
\* EXIT_FAILURE straight from the close: it never got past the read to
\* line 98, forked no Sub-delegate and exec'd no helper.
C28_OwnWriteEndClosedBeforeRead ==
  /\ [](\A c \in Calls :
         /\ pcD[c] \notin {"none", "close_w"} =>
              /\ <<"D", WriteEnd>> \notin holders[c]
              /\ closes[c][<<"D", WriteEnd>>] = 1
         /\ pcD[c] = "close_w" => closes[c][<<"D", WriteEnd>>] = 0
         /\ fault.D[c] = "close" =>
              /\ pcD[c] \in {"zombie", "gone"}
              /\ stD[c] = ExitedWith(EXIT_FAILURE)
              /\ closes[c][<<"D", ReadEnd>>] = 0
              /\ pcS[c] = "none" /\ ~HelperExeced(c))
  /\ [][\A c \in Calls :
          (pcD[c] = "close_w" /\ fault'.D[c] = "close") => pcD'[c] = "zombie"]_vars

C28_Witness ==
  \E c \in Calls :
    /\ fault.D[c] = "close" /\ pcD[c] = "gone" /\ Returned
    /\ ret = ExitedWith(EXIT_FAILURE)

\* Where each path of the examples that exists is, with the directory part
\* resolved (the last component is not followed).
CanonicalPaths ==
  { [path |-> P_d_f, canon |-> P_d_f], [path |-> P_f, canon |-> P_d_f],
    [path |-> P_l_f, canon |-> P_d_f], [path |-> P_d_g, canon |-> P_d_g],
    [path |-> P_d_h, canon |-> P_d_h], [path |-> P_d_u, canon |-> P_d_u],
    [path |-> P_k, canon |-> P_k], [path |-> P_m_e, canon |-> P_m_e] }

Exists(path) == \E e \in FileSystem : e.path = path

IsDirectory(path) == \E e \in FileSystem : e.path = path /\ e.dir

SameInode(p, q) ==
  \E e \in FileSystem, f \in FileSystem :
    e.path = p /\ f.path = q /\ e.ino = f.ino /\ e.dev = f.dev

\* The shadowed original of an existing path: the root followed by where
\* the path is.
ShadowedOriginal(path) ==
  g_shadowed_paths_root
    \o (CHOOSE e \in CanonicalPaths : e.path = path).canon

\* The conditions C25 names for a redirected destination.
RedirectClaimed ==
  /\ g_shadowed_paths_root # NULL
  /\ Exists(renameArgs.new) /\ ~IsDirectory(renameArgs.new)
  /\ ~SameInode(renameArgs.old, renameArgs.new)
  /\ Exists(ShadowedOriginal(renameArgs.new))
  /\ ~IsDirectory(ShadowedOriginal(renameArgs.new))

\* C25 as claimed: a finished rename has made exactly one call of the real
\* rename, with old unchanged; its destination is the shadowed original of
\* new if the root is set, new exists and is not a directory, old and new
\* are not the same inode, and the shadowed original exists and is not a
\* directory; otherwise it is new.
C25_RedirectIffShadowed ==
  \A t \in Threads :
    pcR[t] = "done" =>
      /\ Len(realCalls[t]) = 1
      /\ realCalls[t][1].old = renameArgs.old
      /\ realCalls[t][1].new =
           IF RedirectClaimed THEN ShadowedOriginal(renameArgs.new)
                              ELSE renameArgs.new

\* C25 as amended: as above, with two more conditions for the redirected
\* destination: old exists (lstat(old) succeeds), and no allocation failed
\* while the shadow path was built.  A rename that has not finished has
\* made no call.
C25_RedirectIffShadowedAndOldExists ==
  \A t \in Threads :
    /\ pcR[t] # "done" => realCalls[t] = <<>>
    /\ pcR[t] = "done" =>
         /\ Len(realCalls[t]) = 1
         /\ realCalls[t][1].old = renameArgs.old
         /\ realCalls[t][1].new =
              IF RedirectClaimed /\ Exists(renameArgs.old) /\ ~allocFailed[t]
                THEN ShadowedOriginal(renameArgs.new)
                ELSE renameArgs.new

C25_Witness ==
  \E t \in Threads :
    /\ pcR[t] = "done"
    /\ renameArgs.new = P_f
    /\ realCalls[t][1].old = P_d_g
    /\ realCalls[t][1].new = <<"/", "s", "/", "d", "/", "f">>

\* C30: in every interleaving of the threads, every call of the real rename
\* goes through the address dlsym gave, never through a null pointer; the
\* memoized pointer is NULL or that address, and once it is not NULL no
\* store changes it.
C30_MemoizedPointerRaceBenign ==
  /\ [](/\ memoized_real_rename \in {NullFn, LibcRename}
        /\ \A t \in Threads :
             /\ pcR[t] # "crashed"
             /\ pcR[t] \in {"dest", "call"} => real_rename[t] = LibcRename
             /\ \A i \in 1..Len(realCalls[t]) : realCalls[t][i].fn = LibcRename)
  /\ [][memoized_real_rename # NullFn
          => memoized_real_rename' = memoized_real_rename]_vars

\* Two threads both found the pointer NULL, and the second is about to
\* store over what the first stored.
C30_Witness ==
  \E t \in Threads, u \in Threads :
    /\ t # u
    /\ pcR[t] = "store" /\ real_rename[t] = LibcRename
    /\ pcR[u] = "done" /\ memoized_real_rename = LibcRename
    /\ realCalls[u][1].fn = LibcRename

----------------------------------------------------------------------------
\* clonecaps: the status file as text.

\* The positions at which a line of the file starts.
LineStarts(content) ==
  {i \in 1..Len(content) : i = 1 \/ content[i - 1] = "\n"}

\* The line starting at position i starts with the prefix of the class.
StartsWith(content, i, class) ==
  /\ i + 7 <= Len(content)
  /\ SubSeq(content, i, i + 7) = CapClasses[class].pref

\* ... and goes on with exactly 16 hex digits and a newline.
SixteenHexDigits(content, i) ==
  /\ i + 24 <= Len(content)
  /\ \A k \in 8..23 : IsHex(content[i + k])
  /\ content[i + 24] = "\n"

CapLinesOf(content, class) ==
  {i \in LineStarts(content) : StartsWith(content, i, class)}

WellFormed(content) ==
  \A class \in DOMAIN CapClasses :
    /\ Cardinality(CapLinesOf(content, class)) = 1
    /\ \A i \in CapLinesOf(content, class) : SixteenHexDigits(content, i)

\* The value written on the line of the class, most significant digit first.
ValueOf(content, class) ==
  LET i == CHOOSE j \in CapLinesOf(content, class) : TRUE
  IN  [k \in 1..16 |-> HexVal(content[i + 7 + k])]

FieldsOf(content) ==
  [f \in DOMAIN ZeroCapBits |->
     LET class == CHOOSE c \in DOMAIN CapClasses : CapClasses[c].field = f
     IN  ValueOf(content, class)]

\* main has called read_procfs_cap_bits on the target file.
TargetRead ==
  /\ pcM \notin {"args", "last_cap", "initial", "target"}
  /\ faultM \notin {"usage", "last_cap"}

\* C29: read_procfs_cap_bits returns true if and only if each of the five
\* Cap lines occurs exactly once at the start of a line with exactly 16 hex
\* digits followed by a newline, and on success each field holds the value
\* of its own class.  (Violated: the length of what strtoull consumed is
\* tested, not the digits.)
C29_TrueIffFiveWellFormedLines ==
  TargetRead =>
    /\ faultM # "parse" <=> WellFormed(targetFile)
    /\ WellFormed(targetFile) => target_bits = FieldsOf(targetFile)

\* What holds of every state of a run of clonecaps.
ExecOnlyOnMatch ==
  /\ pcM = "execd" =>
       /\ faultM = "none" /\ exitM = 0
       /\ read_procfs_cap_bits(targetFile).ok
       /\ kernelCaps = read_procfs_cap_bits(targetFile).cap_bits
       /\ WellFormed(targetFile) => kernelCaps = FieldsOf(targetFile)
       /\ argv[3] = "--"
       /\ execM = [path |-> argv[4], argv |-> SubSeq(argv, 4, Len(argv))]
  /\ pcM # "execd" => execM = NotExeced
  /\ faultM # "none" <=> pcM = "exited"
  /\ pcM = "exited" => exitM # 0

\* C26: clonecaps execs the requested command only if its own status, after
\* the capabilities were applied, equals the target status file in all five
\* classes; after any failure it has exited non-zero without exec; the
\* exec'd argument vector is the arguments after "--".
C26_ExecOnlyOnMatch ==
  /\ []ExecOnlyOnMatch
  /\ [][(pcM = "exited" \/ pcM = "execd") => capsVars' = capsVars]_vars

\* The command with its two arguments was exec'd with the target's sets,
\* none of them the sets clonecaps started with.
C26_Witness ==
  /\ pcM = "execd"
  /\ targetFile = ProcStatus(NoCaps)
  /\ kernelCaps = NoCaps
  /\ execM.argv = <<"/bin/sh", "-c", "id">>

====
